---- MODULE Spec2Model ----
(***************************************************************************)
(* Model of the orchestration and resource-lifecycle layer of              *)
(* HunYuan3D-2-Shape: ModelManager (service/model_manager.py),             *)
(* PipelineOrchestrator (service/pipeline_orchestrator.py),                *)
(* MultiViewProcessor (preprocessing/multi_view_processor.py),             *)
(* MeshOptimizer and AdvancedMeshOptimizer (postprocessing/).              *)
(*                                                                         *)
(* Python values are represented as follows.                               *)
(*   - None is the string "None"; an optional object is a set that is      *)
(*     empty (None) or holds the one object.                               *)
(*   - A dict is a set of <<key, value>> pairs; DictSet/DictDel give the   *)
(*     assignment and del of Python's dict.  An ordered dict of views is   *)
(*     the sequence of its keys in insertion order.                        *)
(*   - A model handle (the pipeline object from_pretrained returns) is an  *)
(*     identity drawn from Handles; a new object differs from every live   *)
(*     one.                                                                *)
(*   - External callables (from_pretrained, segmentation, inference,       *)
(*     pymeshlab filters, file conversion) either return or raise; which   *)
(*     one is chosen nondeterministically by the action that calls them.   *)
(***************************************************************************)
EXTENDS Integers, Sequences, FiniteSets, TLC

VARIABLES
    models,      \* ModelManager._models: set of <<model key, handle>>
    current,     \* ModelManager._current_model: a model key or "None"
    pc,          \* position of the request in PipelineOrchestrator.generate
    last,        \* the latest call: [op, arg, err, ret]
    pre,         \* manager state when the latest call started
    log,         \* external calls made by the latest call, in order
    image,       \* generate's `image` argument: [shape, views, front_in_path]
    cfg,         \* generate's `config` object (mutable dataclass)
    cfg0,        \* field values of `config` when generate was called
    views,       \* local processed_views: sequence of view names
    viewCount,   \* local view_count
    pipeline,    \* local pipeline: handle or "None"
    mesh,        \* local mesh: {} (None) or {[faces, floaters, applied]}
    meshOpt,     \* fields of the orchestrator's MeshOptimizer
    advOpt,      \* fields of the AdvancedMeshOptimizer instance
    args,        \* arguments of a direct optimizer call: [self, mesh, kw]
    faults,      \* external calls that raised inside the optimizers
    threads,     \* concurrent load_model callers: thread id -> [pc, kind,
                 \* pipeline]; empty while calls are made one at a time
    instance,    \* ShapeGenerationService._instance: {} (None) or {service id}
    services     \* the services constructed so far: id -> [models, current,
                 \* default_model, auto_load]

vars == <<models, current, pc, last, pre, log, image, cfg, cfg0, views,
          viewCount, pipeline, mesh, meshOpt, advOpt, args, faults, threads, instance, services>>

mgrVars == <<models, current>>
reqVars == <<image, cfg, cfg0, views, viewCount, pipeline, mesh, args, faults,
            threads, instance, services>>
optVars == <<meshOpt, advOpt>>

None == "None"

(* ------------------------------ bounds -------------------------------- *)

\* a request overrides at most this many fields of GenerationConfig()
MaxOverrides == 1
\* a view mapping holds at most this many views
MaxViews == 2
\* at most this many pymeshlab filters fail inside one advanced process
\* call made by generate (direct calls draw every combination)
MaxFaults == 1
\* a mesh handed to a direct decimation call has at most this many faces,
\* and the target face count is at most this
MaxFaceCount == 8
\* this many threads call load_model on one manager at the same time
MaxThreads == 2
\* intensities run over 0..MaxIntensity (0..255 in the code)
MaxIntensity == 3
\* calls made on the service class and its instances in one run
MaxCalls == 4

(* --------------------------- service/types.py ------------------------- *)

HUNYUAN3D_2_1 == "hunyuan3d-2.1"
HUNYUAN3D_2MV == "hunyuan3d-2mv"
ModelType == {HUNYUAN3D_2_1, HUNYUAN3D_2MV}

SINGLE_IMAGE == "single"
MULTI_VIEW == "multi_view"
InputMode == {SINGLE_IMAGE, MULTI_VIEW}

\* an external call as a log entry: <<name, numeric argument or 0>>
Call(name) == <<name, 0>>
CallWith(name, arg) == <<name, arg>>
Calls(l) == {l[i][1] : i \in DOMAIN l}

(* ------------------------------ Python dict --------------------------- *)

HasKey(d, k) == \E p \in d : p[1] = k
Keys(d) == {p[1] : p \in d}
DictGet(d, k) == (CHOOSE p \in d : p[1] = k)[2]
DictSet(d, k, v) == {p \in d : p[1] # k} \cup {<<k, v>>}
DictDel(d, k) == {p \in d : p[1] # k}

\* identities a new pipeline object can take
Handles == {"h1", "h2", "h3", "h4", "h5"}
\* from_pretrained returns a new object: distinct from every live handle
NewHandle(d) == CHOOSE h \in Handles : \A p \in d : p[2] # h

(* ---------------------- service/model_manager.py ---------------------- *)

\* ModelManager.load_model(model_type); ok: from_pretrained returns
\* (TRUE) or raises (FALSE) when it is called.
load_model_append(m, cur, k, ok) ==
    IF ok
    THEN [models |-> m \cup {<<k, NewHandle(m)>>}, current |-> k,
          err |-> None, log |-> <<Call("from_pretrained")>>]
    ELSE [models |-> m, current |-> cur,
          err |-> "Exception", log |-> <<Call("from_pretrained")>>]

load_model_reload(m, cur, k, ok) ==
    IF ok
    THEN [models |-> DictSet(m, k, NewHandle(m)), current |-> k,
          err |-> None, log |-> <<Call("from_pretrained")>>]
    ELSE [models |-> m, current |-> cur,
          err |-> "Exception", log |-> <<Call("from_pretrained")>>]

load_model_current_first(m, cur, k, ok) ==
    IF HasKey(m, k)
    THEN [models |-> m, current |-> k, err |-> None, log |-> <<>>]
    ELSE IF ok
    THEN [models |-> DictSet(m, k, NewHandle(m)), current |-> k,
          err |-> None, log |-> <<Call("from_pretrained")>>]
    ELSE [models |-> m, current |-> k,
          err |-> "Exception", log |-> <<Call("from_pretrained")>>]

load_model_partial(m, cur, k, ok) ==
    IF HasKey(m, k)
    THEN [models |-> m, current |-> k, err |-> None, log |-> <<>>]
    ELSE IF ok
    THEN [models |-> DictSet(m, k, NewHandle(m)), current |-> k,
          err |-> None, log |-> <<Call("from_pretrained")>>]
    ELSE [models |-> DictSet(m, k, NewHandle(m)), current |-> cur,
          err |-> "Exception", log |-> <<Call("from_pretrained")>>]

load_model(m, cur, k, ok) ==
    IF HasKey(m, k)
    THEN [models |-> m, current |-> k, err |-> None, log |-> <<>>]
    ELSE IF ok
    THEN [models |-> DictSet(m, k, NewHandle(m)), current |-> k,
          err |-> None, log |-> <<Call("from_pretrained")>>]
    ELSE [models |-> m, current |-> cur,
          err |-> "Exception", log |-> <<Call("from_pretrained")>>]

\* ModelManager.unload_model(model_type); the cache is emptied on a cuda
\* or mps device
unload_model_keep(m, cur, k) ==
    [models |-> m, current |-> IF cur = k THEN None ELSE cur,
     log |-> <<>>]

unload_model_fallback(m, cur, k) ==
    IF HasKey(m, k)
    THEN [models |-> DictDel(m, k),
          current |-> IF cur # k THEN cur
                      ELSE IF DictDel(m, k) = {} THEN None
                      ELSE (CHOOSE p \in DictDel(m, k) : TRUE)[1],
          log |-> <<Call("empty_cache")>>]
    ELSE [models |-> m, current |-> cur, log |-> <<>>]

unload_model(m, cur, k) ==
    IF HasKey(m, k)
    THEN [models |-> DictDel(m, k), current |-> IF cur = k THEN None ELSE cur,
          log |-> <<Call("empty_cache")>>]
    ELSE [models |-> m, current |-> cur, log |-> <<>>]

\* ModelManager.get_model(model_type=None); k = "None" when omitted
get_model_current(m, cur, k) ==
    IF cur = None \/ ~HasKey(m, cur)
    THEN [ret |-> None, err |-> "RuntimeError"]
    ELSE [ret |-> DictGet(m, cur), err |-> None]

get_model_any(m, cur, k) ==
    LET key == IF k # None THEN k ELSE cur IN
    IF key = None \/ m = {}
    THEN [ret |-> None, err |-> "RuntimeError"]
    ELSE IF HasKey(m, key)
    THEN [ret |-> DictGet(m, key), err |-> None]
    ELSE [ret |-> (CHOOSE p \in m : TRUE)[2], err |-> None]

get_model(m, cur, k) ==
    LET key == IF k # None THEN k ELSE cur IN
    IF key = None \/ ~HasKey(m, key)
    THEN [ret |-> None, err |-> "RuntimeError"]
    ELSE [ret |-> DictGet(m, key), err |-> None]

loaded_models_none(m) == {}

\* ModelManager.loaded_models
loaded_models(m) == Keys(m)

(* ------------------------------ requests ------------------------------ *)

NoImage == [shape |-> "none", views |-> <<>>, front_in_path |-> FALSE]

\* GenerationConfig(): the dataclass defaults
DefaultConfig ==
    [remove_background |-> TRUE, optimize_mesh |-> TRUE, max_faces |-> 40000,
     input_mode |-> SINGLE_IMAGE, auto_detect_mode |-> TRUE,
     normalize_lighting |-> FALSE, fill_holes |-> FALSE,
     max_hole_size |-> 100, make_watertight |-> FALSE,
     smooth_surface |-> FALSE, smooth_iterations |-> 2,
     recalculate_normals |-> FALSE]

NoCall == [op |-> "none", arg |-> None, err |-> None, ret |-> None]
NoKwargs == [x \in {} |-> 0]
NoArgs == [self |-> {}, mesh |-> {}, kw |-> NoKwargs]


(* ------------------- preprocessing/multi_view_processor.py ------------ *)

VIEW_ORDER == <<"front", "left", "back", "right">>
ViewOrderNames == {VIEW_ORDER[i] : i \in DOMAIN VIEW_ORDER}

\* MultiViewProcessor.validate_views on a view mapping
validate_views_any(vs) == Len(vs) > 0

validate_views(vs) == \E i \in DOMAIN vs : vs[i] = "front"

\* the loop of MultiViewProcessor.process over images.items(), from the
\* i-th view on; the values are decoded images; segFailAt is the index of
\* the view whose segmentation call raises (0: none)
RECURSIVE mv_loop(_, _, _, _, _)
mv_loop(vs, i, remove_background, segFailAt, acc) ==
    IF i > Len(vs) THEN acc
    ELSE IF vs[i] \notin ViewOrderNames
    THEN [acc EXCEPT !.err = "ValueError"]
    ELSE IF remove_background
    THEN IF i = segFailAt
         THEN [acc EXCEPT !.err = "Exception",
                          !.log = Append(@, Call("segment"))]
         ELSE mv_loop(vs, i + 1, remove_background, segFailAt,
                      [acc EXCEPT !.views = Append(@, vs[i]),
                                  !.log = Append(@, Call("segment"))])
    ELSE mv_loop(vs, i + 1, remove_background, segFailAt,
                 [acc EXCEPT !.views = Append(@, vs[i])])

\* MultiViewProcessor.process(images, remove_background); the orchestrator
\* constructs the processor with a background remover
mv_process(vs, remove_background, segFailAt) ==
    mv_loop(vs, 1, remove_background, segFailAt,
            [views |-> <<>>, err |-> None, log |-> <<>>])

(* ------------------- postprocessing/mesh_optimizer.py ----------------- *)

\* a mesh: face count, faces in small disconnected components, and the
\* filters applied to it so far
WithFilter(m, name) == [m EXCEPT !.applied = Append(@, name)]

TheOne(s) == CHOOSE x \in s : TRUE

\* MeshOptimizer._remove_floaters: the selected components are deleted
RemoveFloaters(m) ==
    [WithFilter(m, "remove_floaters")
        EXCEPT !.faces = @ - m.floaters, !.floaters = 0]

\* what an external call that returns does to the mesh
Effect(m, call) ==
    CASE call[1] \in {"export_ply", "load_ply",
                      "compute_selection_by_small_disconnected_components_per_face",
                      "compute_selection_transfer_face_to_vertex"} -> m
      [] call[1] = "meshing_remove_selected_vertices_and_faces" ->
            RemoveFloaters(m)
      [] call[1] = "meshing_decimation_quadric_edge_collapse" ->
            [WithFilter(m, "decimation") EXCEPT !.faces = call[2]]
      [] call[1] = "ply_round_trip" -> WithFilter(m, "remove_degenerate")
      [] OTHER -> WithFilter(m, call[1])

\* one external call of a process whose exceptions propagate: once an
\* exception is raised the rest is skipped
RunFilter(st, call, fails) ==
    TheOne({IF s.err # None THEN s
            ELSE IF fails
            THEN [s EXCEPT !.log = Append(@, call), !.err = "Exception"]
            ELSE [s EXCEPT !.log = Append(@, call),
                           !.mesh = Effect(@, call)] :
            s \in {st}})

\* MeshOptimizer(): constructor defaults
NewMeshOptimizer ==
    [reduce_faces |-> TRUE, max_faces |-> 40000, remove_floaters |-> TRUE,
     remove_degenerate |-> TRUE]

BasicSteps ==
    {"export_ply",
     "compute_selection_by_small_disconnected_components_per_face",
     "compute_selection_transfer_face_to_vertex",
     "meshing_remove_selected_vertices_and_faces",
     "meshing_decimation_quadric_edge_collapse",
     "ply_round_trip", "load_ply"}

\* MeshOptimizer._remove_floaters
remove_floaters(st, F) ==
    RunFilter(
        RunFilter(
            RunFilter(st,
                Call("compute_selection_by_small_disconnected_components_per_face"),
                "compute_selection_by_small_disconnected_components_per_face" \in F),
            Call("compute_selection_transfer_face_to_vertex"),
            "compute_selection_transfer_face_to_vertex" \in F),
        Call("meshing_remove_selected_vertices_and_faces"),
        "meshing_remove_selected_vertices_and_faces" \in F)

\* MeshOptimizer._reduce_faces
reduce_faces_always(st, max_facenum, F) ==
    RunFilter(st,
        CallWith("meshing_decimation_quadric_edge_collapse", max_facenum),
        "meshing_decimation_quadric_edge_collapse" \in F)

reduce_faces(st, max_facenum, F) ==
    TheOne({IF s.err # None THEN s
            ELSE IF max_facenum > s.mesh.faces THEN s
            ELSE RunFilter(s,
                    CallWith("meshing_decimation_quadric_edge_collapse",
                             max_facenum),
                    "meshing_decimation_quadric_edge_collapse" \in F) :
            s \in {st}})

\* MeshOptimizer._remove_degenerate
remove_degenerate(st, F) ==
    RunFilter(st, Call("ply_round_trip"), "ply_round_trip" \in F)

\* MeshOptimizer.process(mesh) without overrides; F: the steps that raise
basic_process(self, m, F) ==
    LET s0 == [mesh |-> m, log |-> <<>>, err |-> None]
        s1 == RunFilter(s0, Call("export_ply"), "export_ply" \in F)
        s2 == IF self.remove_floaters THEN remove_floaters(s1, F) ELSE s1
        s3 == IF self.reduce_faces THEN reduce_faces(s2, self.max_faces, F)
              ELSE s2
        s4 == IF self.remove_degenerate THEN remove_degenerate(s3, F) ELSE s3
    IN  RunFilter(s4, Call("load_ply"), "load_ply" \in F)

(* --------------- postprocessing/advanced_mesh_optimizer.py ------------ *)

\* one pymeshlab filter inside try/except: a failure is caught and the
\* mesh carried forward
TryFilter(st, call, fails) ==
    TheOne({IF s.err # None THEN s
            ELSE IF fails
            THEN [s EXCEPT !.log = Append(@, call)]
            ELSE [s EXCEPT !.log = Append(@, call),
                           !.mesh = Effect(@, call)] :
            s \in {st}})

\* AdvancedMeshOptimizer(): constructor defaults
NewAdvancedMeshOptimizer ==
    [fill_holes |-> TRUE, max_hole_size |-> 100, make_watertight |-> TRUE,
     smooth_surface |-> TRUE, smooth_iterations |-> 2,
     recalculate_normals |-> TRUE]

WatertightFilters ==
    <<"meshing_repair_non_manifold_edges",
      "meshing_repair_non_manifold_vertices",
      "meshing_remove_duplicate_faces",
      "meshing_remove_duplicate_vertices",
      "meshing_remove_null_faces">>

NormalFilters ==
    <<"compute_normal_per_face", "compute_normal_per_vertex",
      "meshing_re_orient_faces_coherentely">>

SeqRange(q) == {q[i] : i \in DOMAIN q}

AdvFilters ==
    SeqRange(WatertightFilters) \cup SeqRange(NormalFilters)
    \cup {"meshing_close_holes", "apply_coord_taubin_smoothing",
          "apply_coord_laplacian_smoothing"}

AdvConversions == {"export_ply", "load_ply"}

\* a run of try/except blocks, one per filter of q from the i-th on
RECURSIVE try_each(_, _, _, _)
try_each(st, q, i, F) ==
    IF i > Len(q) THEN st
    ELSE try_each(TryFilter(st, Call(q[i]), q[i] \in F), q, i + 1, F)

\* AdvancedMeshOptimizer._make_watertight
make_watertight(st, F) == try_each(st, WatertightFilters, 1, F)

\* AdvancedMeshOptimizer._fill_holes
fill_holes_uncaught(self, st, F) ==
    RunFilter(st, CallWith("meshing_close_holes", self.max_hole_size),
              "meshing_close_holes" \in F)

fill_holes(self, st, F) ==
    TryFilter(st, CallWith("meshing_close_holes", self.max_hole_size),
              "meshing_close_holes" \in F)

smooth_surface_taubin_only(self, st, F) ==
    TryFilter(st,
        CallWith("apply_coord_taubin_smoothing", self.smooth_iterations),
        "apply_coord_taubin_smoothing" \in F)

\* AdvancedMeshOptimizer._smooth_surface: Laplacian smoothing is tried
\* when Taubin smoothing raises
smooth_surface(self, st, F) ==
    LET taubin == TryFilter(st,
                     CallWith("apply_coord_taubin_smoothing",
                              self.smooth_iterations),
                     "apply_coord_taubin_smoothing" \in F)
    IN  IF "apply_coord_taubin_smoothing" \notin F THEN taubin
        ELSE TryFilter(taubin,
                 CallWith("apply_coord_laplacian_smoothing",
                          self.smooth_iterations),
                 "apply_coord_laplacian_smoothing" \in F)

recalculate_normals_twice(st, F) ==
    try_each(try_each(st, NormalFilters, 1, F), NormalFilters, 1, F)

\* AdvancedMeshOptimizer._recalculate_normals
recalculate_normals(st, F) == try_each(st, NormalFilters, 1, F)

\* kwargs.get(name, default); kw is a function on the names passed
KwGet(kw, name, default) == IF name \in DOMAIN kw THEN kw[name] ELSE default

\* AdvancedMeshOptimizer.process(mesh, **kw); F: the filters and
\* conversions that raise.  Returns the optimizer's fields after the call
\* with the mesh, the calls made and the error raised.
adv_process(self, m, kw, F) ==
    LET fh == KwGet(kw, "fill_holes", self.fill_holes)
        mw == KwGet(kw, "make_watertight", self.make_watertight)
        ss == KwGet(kw, "smooth_surface", self.smooth_surface)
        si == KwGet(kw, "smooth_iterations", self.smooth_iterations)
        rn == KwGet(kw, "recalculate_normals", self.recalculate_normals)
        s0 == [mesh |-> m, log |-> <<>>, err |-> None]
        s1 == RunFilter(s0, Call("export_ply"), "export_ply" \in F)
        s2 == IF mw THEN make_watertight(s1, F) ELSE s1
        s3 == IF fh THEN fill_holes(self, s2, F) ELSE s2
        \* self.smooth_iterations = smooth_iterations, reached when
        \* smooth_surface is on and the conversion before it did not raise
        self3 == IF ss /\ "export_ply" \notin F
                 THEN [self EXCEPT !.smooth_iterations = si] ELSE self
        s4 == IF ss THEN smooth_surface(self3, s3, F) ELSE s3
        s5 == IF rn THEN recalculate_normals(s4, F) ELSE s4
        s6 == RunFilter(s5, Call("load_ply"), "load_ply" \in F)
    IN  TheOne({[self |-> self3, mesh |-> s.mesh, log |-> s.log,
                 err |-> s.err] : s \in {s6}})

(* ------------------------------ manager calls ------------------------- *)

LoadModel ==
    /\ pc = "idle"
    /\ \E k \in ModelType, ok \in BOOLEAN :
         \E r \in {load_model(models, current, k, ok)} :
         /\ models' = r.models
         /\ current' = r.current
         /\ log' = r.log
         /\ last' = [op |-> "load_model", arg |-> k, err |-> r.err, ret |-> None]
    /\ pre' = [models |-> models, current |-> current]
    /\ pc' = "done"
    /\ UNCHANGED <<reqVars, optVars>>

UnloadModel ==
    /\ pc = "idle"
    /\ \E k \in ModelType :
         \E r \in {unload_model(models, current, k)} :
         /\ models' = r.models
         /\ current' = r.current
         /\ log' = r.log
         /\ last' = [op |-> "unload_model", arg |-> k, err |-> None,
                     ret |-> None]
    /\ pre' = [models |-> models, current |-> current]
    /\ pc' = "done"
    /\ UNCHANGED <<reqVars, optVars>>

GetModel ==
    /\ pc = "idle"
    /\ \E k \in ModelType \cup {None} :
         \E r \in {get_model(models, current, k)} :
         last' = [op |-> "get_model", arg |-> k, err |-> r.err, ret |-> r.ret]
    /\ log' = <<>>
    /\ pre' = [models |-> models, current |-> current]
    /\ pc' = "done"
    /\ UNCHANGED <<reqVars, mgrVars, optVars>>

(* ---------------------- service/shape_service.py ---------------------- *)

\* ShapeGenerationService.get_status on the service's manager: the
\* ServiceStatus fields is_ready and loaded_models
get_status_all(m) ==
    [is_ready |-> loaded_models(m) = ModelType,
     loaded_models |-> loaded_models(m)]

get_status(m) ==
    [is_ready |-> Cardinality(loaded_models(m)) > 0,
     loaded_models |-> loaded_models(m)]

GetStatus ==
    /\ pc = "idle"
    /\ last' = [op |-> "get_status", arg |-> None, err |-> None,
                ret |-> get_status(models)]
    /\ log' = <<>>
    /\ pre' = [models |-> models, current |-> current]
    /\ pc' = "done"
    /\ UNCHANGED <<reqVars, mgrVars, optVars>>

(* ------------------ service/pipeline_orchestrator.py ------------------ *)

\* view names requests use; "top" is outside VIEW_ORDER
RequestViewNames == {"front", "left", "top"}

RECURSIVE DistinctSeqs(_, _)
DistinctSeqs(S, n) ==
    IF n = 0 THEN {<<>>}
    ELSE LET shorter == DistinctSeqs(S, n - 1) IN
         shorter \cup {Append(q, x) : q \in shorter, x \in S}

RequestViews ==
    {q \in DistinctSeqs(RequestViewNames, MaxViews) :
        \A i, j \in DOMAIN q : i # j => q[i] # q[j]}

\* the `image` argument: a decoded image, a str path (whose text contains
\* "front" or not), or a mapping of view name to decoded image
Images ==
    {[shape |-> "image", views |-> <<>>, front_in_path |-> FALSE]}
    \cup {[shape |-> "path", views |-> <<>>, front_in_path |-> b] : b \in BOOLEAN}
    \cup {[shape |-> "views", views |-> q, front_in_path |-> FALSE] :
             q \in RequestViews}

ConfigFields == DOMAIN DefaultConfig

AllConfigs ==
    [remove_background : BOOLEAN, optimize_mesh : BOOLEAN,
     max_faces : {40000, 12}, input_mode : InputMode,
     auto_detect_mode : BOOLEAN, normalize_lighting : BOOLEAN,
     fill_holes : BOOLEAN, max_hole_size : {100, 30},
     make_watertight : BOOLEAN, smooth_surface : BOOLEAN,
     smooth_iterations : {2, 5}, recalculate_normals : BOOLEAN]

Overrides(c) == {f \in ConfigFields : c[f] # DefaultConfig[f]}

\* GenerationConfig(auto_detect_mode=False, input_mode=...): the mode is
\* forced
ForcedConfigs ==
    {[DefaultConfig EXCEPT !.auto_detect_mode = FALSE, !.input_mode = m] :
        m \in InputMode}

\* GenerationConfig(fill_holes=True, max_hole_size=...) and
\* GenerationConfig(smooth_surface=True, smooth_iterations=...): a stage
\* switched on together with its sub-parameter
TunedConfigs ==
    {[DefaultConfig EXCEPT !.fill_holes = TRUE, !.max_hole_size = 30],
     [DefaultConfig EXCEPT !.smooth_surface = TRUE, !.smooth_iterations = 5]}

Configs ==
    {c \in AllConfigs : Cardinality(Overrides(c)) <= MaxOverrides}
    \cup ForcedConfigs \cup TunedConfigs

\* meshes the inference callable returns; a component is a floater when
\* its face count is below 0.5% of the total
InferredMeshes ==
    {[faces |-> 12, floaters |-> 0, applied |-> <<>>],
     [faces |-> 40000, floaters |-> 100, applied |-> <<>>]}

\* what the inference callable does
InferOutcomes == {"raise", "None", "mesh", "list", "list_none", "empty_list"}

\* PipelineOrchestrator._detect_input_mode
detect_input_mode_single(img) == SINGLE_IMAGE

detect_input_mode(img) ==
    IF img.shape = "views" THEN MULTI_VIEW ELSE SINGLE_IMAGE

\* an exception leaves generate: the locals are dropped
Raise_on(e) ==
    /\ pc' = "advanced"
    /\ last' = [op |-> "generate", arg |-> None, err |-> e, ret |-> None]
    /\ views' = <<>>
    /\ viewCount' = 0
    /\ pipeline' = None
    /\ mesh' = {}

Raise(e) ==
    /\ pc' = "done"
    /\ last' = [op |-> "generate", arg |-> None, err |-> e, ret |-> None]
    /\ views' = <<>>
    /\ viewCount' = 0
    /\ pipeline' = None
    /\ mesh' = {}

\* generate(image, config): lines 128-138
Generate ==
    /\ pc = "idle"
    /\ \E img \in Images, c \in Configs :
         /\ image' = img
         /\ cfg0' = c
         /\ cfg' = IF c.auto_detect_mode
                   THEN [c EXCEPT !.input_mode = detect_input_mode(img)]
                   ELSE c
    /\ pc' = IF cfg'.input_mode = MULTI_VIEW THEN "mv_validate"
             ELSE "single_preprocess"
    /\ last' = [op |-> "generate", arg |-> None, err |-> None, ret |-> None]
    /\ pre' = [models |-> models, current |-> current]
    /\ log' = <<>>
    /\ views' = <<>>
    /\ viewCount' = 0
    /\ pipeline' = None
    /\ mesh' = {}
    /\ UNCHANGED <<mgrVars, optVars, args, faults, threads, instance, services>>

\* _generate_single lines 158-165: load the image, remove the background
SinglePreprocess ==
    /\ pc = "single_preprocess"
    /\ \E openOk, segOk \in BOOLEAN :
         LET opened == IF image.shape = "path"
                       THEN <<Call("Image.open")>> ELSE <<>>
         IN
         IF image.shape = "path" /\ ~openOk
         THEN /\ log' = log \o opened
              /\ Raise("Exception")
         ELSE IF cfg.remove_background /\ image.shape = "views"
         THEN \* BiRefNetBackgroundRemover.process reads image.size
              /\ log' = log \o opened
              /\ Raise("AttributeError")
         ELSE IF cfg.remove_background /\ ~segOk
         THEN /\ log' = (log \o opened) \o <<Call("segment")>>
              /\ Raise("Exception")
         ELSE /\ log' = (log \o opened) \o
                        (IF cfg.remove_background
                         THEN <<Call("segment")>> ELSE <<>>)
              /\ pc' = "single_model"
              /\ UNCHANGED <<last, views, viewCount, pipeline, mesh>>
    /\ UNCHANGED <<mgrVars, pre, image, cfg, cfg0, threads, instance, services, optVars, args, faults>>

\* _generate_single line 168
SingleModelSelect ==
    /\ pc = "single_model"
    /\ \E r \in {get_model(models, current, HUNYUAN3D_2_1)} :
         IF r.err # None
         THEN Raise(r.err)
         ELSE /\ pipeline' = r.ret
              /\ pc' = "infer"
              /\ UNCHANGED <<last, views, viewCount, mesh>>
    /\ UNCHANGED <<mgrVars, pre, log, image, cfg, cfg0, optVars, args, faults,
                 threads, instance, services>>

\* _generate_multi_view lines 229-233
MultiValidate ==
    /\ pc = "mv_validate"
    /\ IF image.shape = "image"
       THEN \* 'front' in <PIL image>
            Raise("TypeError")
       ELSE IF image.shape = "path"
       THEN \* 'front' in <str> is a substring test; len(images) is the
            \* length of the text, left 0 here: the next statement raises
            IF image.front_in_path
            THEN /\ pc' = "mv_preprocess"
                 /\ UNCHANGED <<last, views, viewCount, pipeline, mesh>>
            ELSE Raise("ValueError")
       ELSE IF ~validate_views(image.views)
       THEN Raise("ValueError")
       ELSE /\ pc' = "mv_preprocess"
            /\ viewCount' = Len(image.views)
            /\ UNCHANGED <<last, views, pipeline, mesh>>
    /\ UNCHANGED <<mgrVars, pre, log, image, cfg, cfg0, optVars, args, faults,
                 threads, instance, services>>

\* _generate_multi_view lines 235-255
MultiPreprocess ==
    /\ pc = "mv_preprocess"
    /\ \E segFailAt \in 0..Len(image.views), lightOk \in BOOLEAN :
         IF image.shape = "path"
         THEN \* <str>.items()
              /\ log' = log
              /\ Raise("AttributeError")
         ELSE
         \E r \in {IF cfg.remove_background
                  THEN mv_process(image.views, TRUE, segFailAt)
                  ELSE [views |-> image.views, err |-> None, log |-> <<>>]} :
         LET light == cfg.normalize_lighting /\ Len(r.views) > 1 IN
         IF r.err # None
         THEN /\ log' = log \o r.log
              /\ Raise(r.err)
         ELSE IF light /\ ~lightOk
         THEN /\ log' = (log \o r.log) \o <<Call("normalize_lighting")>>
              /\ Raise("Exception")
         ELSE /\ log' = (log \o r.log) \o
                        (IF light THEN <<Call("normalize_lighting")>>
                         ELSE <<>>)
              /\ views' = r.views
              /\ pc' = "mv_model"
              /\ UNCHANGED <<last, viewCount, pipeline, mesh>>
    /\ UNCHANGED <<mgrVars, pre, image, cfg, cfg0, threads, instance, services, optVars, args, faults>>

\* _generate_multi_view lines 257-262
MultiModelSelect ==
    /\ pc = "mv_model"
    /\ \E ok \in BOOLEAN :
         \E ld \in {IF HUNYUAN3D_2MV \notin loaded_models(models)
                   THEN load_model(models, current, HUNYUAN3D_2MV, ok)
                   ELSE [models |-> models, current |-> current,
                         err |-> None, log |-> <<>>]} :
         \E r \in {get_model(ld.models, ld.current, HUNYUAN3D_2MV)} :
         /\ models' = ld.models
         /\ current' = ld.current
         /\ log' = log \o ld.log
         /\ IF ld.err # None THEN Raise(ld.err)
            ELSE IF r.err # None THEN Raise(r.err)
            ELSE /\ pipeline' = r.ret
                 /\ pc' = "infer"
                 /\ UNCHANGED <<last, views, viewCount, mesh>>
    /\ UNCHANGED <<pre, image, cfg, cfg0, threads, instance, services, optVars, args, faults>>

\* lines 169-178 and 263-272: the inference call and the first element
Infer ==
    /\ pc = "infer"
    /\ log' = Append(log, Call("infer"))
    /\ \E out \in InferOutcomes, m \in InferredMeshes :
         CASE out = "raise" -> Raise("Exception")
           [] out = "empty_list" -> Raise("IndexError")
           [] out \in {"None", "list_none"} ->
                /\ mesh' = {}
                /\ pc' = "basic"
                /\ UNCHANGED <<last, views, viewCount, pipeline>>
           [] out \in {"mesh", "list"} ->
                /\ mesh' = {m}
                /\ pc' = "basic"
                /\ UNCHANGED <<last, views, viewCount, pipeline>>
    /\ UNCHANGED <<mgrVars, pre, image, cfg, cfg0, threads, instance, services, optVars, args, faults>>

\* the mesh_optimizer and advanced_mesh_optimizer properties construct
\* the instance with the defaults on first use and return the same one
\* from then on: an instance not yet constructed is represented by the
\* fields it gets on construction
mesh_optimizer == meshOpt
advanced_mesh_optimizer == advOpt

\* lines 181-185 and 275-279: basic optimization
BasicOptimize ==
    /\ pc = "basic"
    /\ IF mesh # {} /\ cfg.optimize_mesh
       THEN \E F \in {{}} \cup {{f} : f \in BasicSteps} :
              \* self.mesh_optimizer.max_faces = config.max_faces
              \E self \in {[mesh_optimizer EXCEPT
                                !.max_faces = cfg.max_faces]} :
              \E r \in {basic_process(self, TheOne(mesh), F)} :
              /\ meshOpt' = self
              /\ faults' = F \cap Calls(r.log)
              /\ log' = log \o r.log
              /\ IF r.err # None THEN Raise(r.err)
                 ELSE /\ mesh' = {r.mesh}
                      /\ pc' = "advanced"
                      /\ UNCHANGED <<last, views, viewCount, pipeline>>
       ELSE /\ pc' = "advanced"
            /\ UNCHANGED <<last, log, views, viewCount, pipeline, mesh,
                           meshOpt, faults>>
    /\ UNCHANGED <<mgrVars, pre, image, cfg, cfg0, threads, instance, services, advOpt, args>>

\* the keyword arguments generate passes to AdvancedMeshOptimizer.process
AdvancedKwargs_none(c) == NoKwargs

AdvancedKwargs(c) ==
    [fill_holes |-> c.fill_holes, max_hole_size |-> c.max_hole_size,
     make_watertight |-> c.make_watertight,
     smooth_surface |-> c.smooth_surface,
     smooth_iterations |-> c.smooth_iterations,
     recalculate_normals |-> c.recalculate_normals]

AnyAdvanced(c) ==
    c.fill_holes \/ c.make_watertight \/ c.smooth_surface
    \/ c.recalculate_normals

FaultSets ==
    {F \in SUBSET (AdvFilters \cup AdvConversions) :
        Cardinality(F) <= MaxFaults}

\* lines 200-209 and 294-303: GenerationResult(mesh, config, input_mode,
\* view_count) is returned
Return ==
    /\ pc' = "done"
    /\ last' = [op |-> "generate", arg |-> None, err |-> None,
                ret |-> "GenerationResult"]
    /\ viewCount' = IF cfg.input_mode = MULTI_VIEW THEN viewCount ELSE 1
    /\ views' = <<>>
    /\ pipeline' = None

\* lines 187-209 and 281-303: advanced optimization, then the result
AdvancedOptimize ==
    /\ pc = "advanced"
    /\ IF mesh # {} /\ AnyAdvanced(cfg)
       THEN \E F \in FaultSets :
              \E r \in {adv_process(advanced_mesh_optimizer, TheOne(mesh),
                                     AdvancedKwargs(cfg), F)} :
              /\ advOpt' = r.self
              /\ faults' = faults \cup (F \cap Calls(r.log))
              /\ log' = log \o r.log
              /\ IF r.err # None THEN Raise(r.err)
                 ELSE /\ mesh' = {r.mesh}
                      /\ Return
       ELSE /\ Return
            /\ UNCHANGED <<log, mesh, advOpt, faults>>
    /\ UNCHANGED <<mgrVars, pre, image, cfg, cfg0, threads, instance, services, meshOpt, args>>

\* the caller has taken the outcome of the latest call; the request's
\* image, config and result are discarded (they live for one request)
Discard ==
    /\ pc = "done"
    /\ pc' = "idle"
    /\ last' = NoCall
    /\ pre' = [models |-> models, current |-> current]
    /\ log' = <<>>
    /\ image' = NoImage
    /\ cfg' = DefaultConfig
    /\ cfg0' = DefaultConfig
    /\ views' = <<>>
    /\ viewCount' = 0
    /\ pipeline' = None
    /\ mesh' = {}
    /\ args' = NoArgs
    /\ faults' = {}
    /\ UNCHANGED <<mgrVars, optVars, threads, instance, services>>

InitCommon ==
    /\ models = {}
    /\ current = None
    /\ pc = "idle"
    /\ last = NoCall
    /\ pre = [models |-> {}, current |-> None]
    /\ log = <<>>
    /\ image = NoImage
    /\ cfg = DefaultConfig
    /\ cfg0 = DefaultConfig
    /\ views = <<>>
    /\ viewCount = 0
    /\ pipeline = None
    /\ mesh = {}
    /\ meshOpt = NewMeshOptimizer
    /\ args = NoArgs
    /\ faults = {}
    /\ threads = <<>>
    /\ instance = {}
    /\ services = <<>>

\* the service after construction: no model loaded, optimizers at
\* their defaults
Init ==
    /\ InitCommon
    /\ advOpt = NewAdvancedMeshOptimizer

Next ==
    \/ LoadModel
    \/ UnloadModel
    \/ GetModel
    \/ GetStatus
    \/ Generate
    \/ SinglePreprocess
    \/ SingleModelSelect
    \/ MultiValidate
    \/ MultiPreprocess
    \/ MultiModelSelect
    \/ Infer
    \/ BasicOptimize
    \/ AdvancedOptimize
    \/ Discard

Spec == Init /\ [][Next]_vars

(* ------------- direct calls of AdvancedMeshOptimizer.process ---------- *)

\* the mesh handed to a direct call
DirectMeshes == {[faces |-> 12, floaters |-> 0, applied |-> <<>>]}

\* keyword arguments of direct calls
DirectKwargs ==
    {NoKwargs, [max_hole_size |-> 30], [fill_holes |-> FALSE],
     [smooth_surface |-> TRUE, smooth_iterations |-> 5]}

\* AdvancedMeshOptimizer(fill_holes, ..., recalculate_normals): a caller
\* constructs the optimizer with any flags
InitAdv ==
    /\ InitCommon
    /\ advOpt \in
         [fill_holes : BOOLEAN, max_hole_size : {100},
          make_watertight : BOOLEAN, smooth_surface : BOOLEAN,
          smooth_iterations : {2}, recalculate_normals : BOOLEAN]

\* optimizer.process(mesh, **kw) called directly, with every combination
\* of failing filters, and with either conversion failing or none
AdvProcessCall ==
    /\ pc = "idle"
    /\ \E m \in DirectMeshes, kw \in DirectKwargs, Ff \in SUBSET AdvFilters,
          Fc \in {{}} \cup {{c} : c \in AdvConversions} :
         \E r \in {adv_process(advOpt, m, kw, Ff \cup Fc)} :
         /\ args' = [self |-> {advOpt}, mesh |-> {m}, kw |-> kw]
         /\ advOpt' = r.self
         /\ mesh' = IF r.err = None THEN {r.mesh} ELSE {}
         /\ log' = r.log
         /\ faults' = (Ff \cup Fc) \cap Calls(r.log)
         /\ last' = [op |-> "adv_process", arg |-> None, err |-> r.err,
                     ret |-> IF r.err = None THEN "Trimesh" ELSE None]
    /\ pc' = "done"
    /\ UNCHANGED <<mgrVars, pre, image, cfg, cfg0, threads, instance, services, views, viewCount,
                   pipeline, meshOpt>>

NextAdv ==
    \/ AdvProcessCall
    \/ Discard

SpecAdv == InitAdv /\ [][NextAdv]_vars

(* ------------------------- direct calls of units ---------------------- *)

\* meshes handed to a direct decimation call
UnitMeshes ==
    {[faces |-> n, floaters |-> 0, applied |-> <<>>] : n \in 1..MaxFaceCount}

\* optimizer._reduce_faces(ms, max_facenum) on a mesh set holding the mesh
ReduceFacesCall ==
    /\ pc = "idle"
    /\ \E m \in UnitMeshes, n \in 1..MaxFaceCount, fails \in BOOLEAN :
         \E r \in {reduce_faces(
                      [mesh |-> m, log |-> <<>>, err |-> None], n,
                      IF fails
                      THEN {"meshing_decimation_quadric_edge_collapse"}
                      ELSE {})} :
         /\ args' = [self |-> {}, mesh |-> {m}, kw |-> [max_facenum |-> n]]
         /\ mesh' = IF r.err = None THEN {r.mesh} ELSE {}
         /\ log' = r.log
         /\ faults' = IF r.err = None THEN {}
                      ELSE {"meshing_decimation_quadric_edge_collapse"}
         /\ last' = [op |-> "reduce_faces", arg |-> None, err |-> r.err,
                     ret |-> IF r.err = None THEN "MeshSet" ELSE None]
    /\ pc' = "done"
    /\ UNCHANGED <<mgrVars, pre, image, cfg, cfg0, threads, instance, services, views, viewCount,
                   pipeline, optVars>>

(* -------------------- postprocessing/format_converter.py -------------- *)

\* a str is the sequence of its characters; the letters that occur
UpperChars == <<"G", "L", "B", "T", "F", "O", "J", "P", "Y", "S", "X">>
LowerChars == <<"g", "l", "b", "t", "f", "o", "j", "p", "y", "s", "x">>

lower_char(c) ==
    IF \E i \in DOMAIN UpperChars : UpperChars[i] = c
    THEN LowerChars[CHOOSE i \in DOMAIN UpperChars : UpperChars[i] = c]
    ELSE c

lower_keep(f) == f

\* str.lower()
lower(f) == [i \in DOMAIN f |-> lower_char(f[i])]

RECURSIVE lstrip_dot(_)
\* str.lstrip('.')
lstrip_dot(f) ==
    IF f # <<>> /\ Head(f) = "." THEN lstrip_dot(Tail(f)) ELSE f

SUPPORTED_FORMATS ==
    { <<"g", "l", "b">>, <<"g", "l", "t", "f">>, <<"o", "b", "j">>,
      <<"p", "l", "y">>, <<"s", "t", "l">>, <<"o", "f", "f">> }

\* format strings handed to the converter
FormatInputs ==
    SUPPORTED_FORMATS \cup
    { <<"G", "L", "B">>, <<"O", "b", "j">>, <<"S", "T", "L">>,
      <<"f", "b", "x">>, <<"F", "B", "X">>, <<"g", "l">>, <<>> }

\* Path(output_path).suffix of the paths handed to export
SuffixInputs ==
    { <<>>, <<".", "g", "l", "b">>, <<".", "P", "L", "Y">>,
      <<".", "f", "b", "x">>, <<".", "t", "x", "t">> }

\* how the calls after the validation go
ExportOutcomes == {"ok", "mkdir raises", "export raises"}

\* FormatConverter.export(mesh, output_path, format), format = {} being
\* Python's None: [err, ret, log, format]
export(suffix, format, outcome) ==
    LET f0 == IF format = {} THEN lstrip_dot(suffix) ELSE TheOne(format)
        f == lower(f0)
    IN  IF f \notin SUPPORTED_FORMATS
        THEN [err |-> "ValueError", ret |-> None, log |-> <<>>, format |-> f]
        ELSE IF outcome = "mkdir raises"
        THEN [err |-> "OSError", ret |-> None, log |-> <<Call("mkdir")>>,
              format |-> f]
        ELSE IF outcome = "export raises"
        THEN [err |-> "Exception", ret |-> None,
              log |-> <<Call("mkdir"), Call("mesh.export")>>, format |-> f]
        ELSE [err |-> None, ret |-> "path",
              log |-> <<Call("mkdir"), Call("mesh.export")>>, format |-> f]

\* FormatConverter.to_bytes(mesh, format): [err, ret, log, format]
to_bytes(format, outcome) ==
    IF format = {}
    THEN [err |-> "AttributeError", ret |-> None, log |-> <<>>,
          format |-> <<>>]
    ELSE LET f == lower(TheOne(format)) IN
         IF f \notin SUPPORTED_FORMATS
         THEN [err |-> "ValueError", ret |-> None, log |-> <<>>, format |-> f]
         ELSE IF outcome = "export raises"
         THEN [err |-> "Exception", ret |-> None,
               log |-> <<Call("mesh.export")>>, format |-> f]
         ELSE [err |-> None, ret |-> "bytes",
               log |-> <<Call("mesh.export")>>, format |-> f]

ExportCall ==
    /\ pc = "idle"
    /\ \E m \in UnitMeshes, suffix \in SuffixInputs,
          format \in {{}} \cup {{f} : f \in FormatInputs},
          outcome \in ExportOutcomes :
         \E r \in {export(suffix, format, outcome)} :
           /\ m.faces = 1
           /\ args' = [self |-> {}, mesh |-> {m},
                       kw |-> [format |-> format, suffix |-> suffix]]
           /\ log' = r.log
           /\ last' = [op |-> "export", arg |-> None, err |-> r.err,
                       ret |-> r.ret]
    /\ pc' = "done"
    /\ UNCHANGED <<mgrVars, pre, image, cfg, cfg0, threads, instance, services, views, viewCount,
                   pipeline, mesh, faults, optVars>>

ToBytesCall ==
    /\ pc = "idle"
    /\ \E m \in UnitMeshes, format \in {{}} \cup {{f} : f \in FormatInputs},
          outcome \in ExportOutcomes \ {"mkdir raises"} :
         \E r \in {to_bytes(format, outcome)} :
           /\ m.faces = 1
           /\ args' = [self |-> {}, mesh |-> {m},
                       kw |-> [format |-> format, suffix |-> <<>>]]
           /\ log' = r.log
           /\ last' = [op |-> "to_bytes", arg |-> None, err |-> r.err,
                       ret |-> r.ret]
    /\ pc' = "done"
    /\ UNCHANGED <<mgrVars, pre, image, cfg, cfg0, threads, instance, services, views, viewCount,
                   pipeline, mesh, faults, optVars>>

(* ------------------- preprocessing/lighting_normalizer.py ------------- *)

\* np.float32 has a significand of 24 bits
Float32Precision == 24

Intensities == 0..MaxIntensity

RECURSIVE Ulp32(_)
\* the spacing of the float32 values around the integer n >= 0
Ulp32(n) == IF n < 2^Float32Precision THEN 1 ELSE 2 * Ulp32(n \div 2)

\* round to nearest, ties to even, of q + rem/unit
RoundHalfEven(q, rem, unit) ==
    IF 2 * rem > unit \/ (2 * rem = unit /\ q % 2 = 1) THEN q + 1 ELSE q

\* int64 -> float32 (astype(np.float32)) of a count n >= 0
AsFloat32(n) ==
    LET u == Ulp32(n) IN u * RoundHalfEven(n \div u, n % u, u)

RECURSIVE Normalise(_, _, _)
\* doubles a > 0 until t <= a < 2t: <<a * 2^k, k>>
Normalise(a, t, k) == IF a >= t THEN <<a, k>> ELSE Normalise(2 * a, t, k + 1)

RECURSIVE QuotientBits(_, _, _, _)
\* long division: n more bits of the quotient q with remainder r of r/t
QuotientBits(q, r, t, n) ==
    IF n = 0 THEN <<q, r>>
    ELSE IF 2 * r >= t THEN QuotientBits(2 * q + 1, 2 * r - t, t, n - 1)
         ELSE QuotientBits(2 * q, 2 * r, t, n - 1)

\* float32 division a / t of float32 values 0 <= a <= t, t > 0: the
\* float32 m * 2^-(k + Float32Precision - 1), as [k, m]; m = 0 for zero
Div32(a, t) ==
    IF a = 0 THEN [k |-> 0, m |-> 0]
    ELSE LET nz == TheOne({Normalise(a, t, 0)})
             qr == TheOne({QuotientBits(1, nz[1] - t, t, Float32Precision - 1)})
             m == RoundHalfEven(qr[1], qr[2], t)
         IN  IF m = 2^Float32Precision
             THEN [k |-> nz[2] - 1, m |-> 2^(Float32Precision - 1)]
             ELSE [k |-> nz[2], m |-> m]

\* x < y on the float32 values of Div32
Less32(x, y) ==
    IF x.m = 0 THEN y.m > 0
    ELSE IF y.m = 0 THEN FALSE
    ELSE x.k > y.k \/ (x.k = y.k /\ x.m < y.m)

RECURSIVE cumsum(_, _)
\* np.cumsum(hist)[i]
cumsum(hist, i) == IF i = 0 THEN hist[0] ELSE cumsum(hist, i - 1) + hist[i]

\* lines 143-147: cdf = np.cumsum(hist).astype(np.float32); cdf / cdf[-1]
cdf(hist) ==
    LET total == AsFloat32(cumsum(hist, MaxIntensity))
    IN  [i \in Intensities |-> Div32(AsFloat32(cumsum(hist, i)), total)]

RECURSIVE advance(_, _, _)
\* line 153: while ref_idx < 255 and ref_cdf[ref_idx] < src_cdf[src_idx]
advance(ref_cdf, ref_idx, target) ==
    IF ref_idx < MaxIntensity /\ Less32(ref_cdf[ref_idx], target)
    THEN advance(ref_cdf, ref_idx + 1, target)
    ELSE ref_idx

RECURSIVE lookup_loop(_, _, _, _, _)
\* lines 150-155: the loop over src_idx with the running ref_idx
lookup_loop(src_cdf, ref_cdf, src_idx, ref_idx, table) ==
    IF src_idx > MaxIntensity THEN table
    ELSE \* bound once: the pointer after the while loop
         TheOne({ lookup_loop(src_cdf, ref_cdf, src_idx + 1, r,
                              [table EXCEPT ![src_idx] = r])
                  : r \in {advance(ref_cdf, ref_idx, src_cdf[src_idx])} })

\* the lookup table _histogram_matching builds for one channel from the
\* histograms of the source and of the reference
lookup_table(src_hist, ref_hist) ==
    TheOne({ lookup_loop(sc, rc, 0, 0, [i \in Intensities |-> 0])
             : sc \in {cdf(src_hist)}, rc \in {cdf(ref_hist)} })

\* pixel counts per intensity
CountInputs == {0, 1, 2, 2^Float32Precision - 1, 2^Float32Precision}

\* histograms of one channel of a non-empty image
Histograms ==
    {h \in [Intensities -> CountInputs] : \E i \in Intensities : h[i] > 0}

\* every pixel of the reference has the top intensity
TopHistogram == [i \in Intensities |-> IF i = MaxIntensity THEN 1 ELSE 0]

\* _histogram_matching(source, reference) on one channel; the result is
\* the lookup table applied to the pixels
HistogramMatchingCall ==
    /\ pc = "idle"
    /\ \E src \in Histograms :
         \E ref \in {src, TopHistogram} :
           \E t \in {lookup_table(src, ref)} :
             /\ args' = [self |-> {}, mesh |-> {},
                         kw |-> [source |-> src, reference |-> ref]]
             /\ last' = [op |-> "_histogram_matching", arg |-> None,
                         err |-> None, ret |-> t]
    /\ log' = <<>>
    /\ pc' = "done"
    /\ UNCHANGED <<mgrVars, pre, image, cfg, cfg0, threads, instance, services, views, viewCount,
                   pipeline, mesh, faults, optVars>>

(* ---------------------- view-set validation, directly ----------------- *)

\* MultiViewInput.validate: required.issubset(self.views.keys())
validate(vs) == {"front"} \subseteq {vs[i] : i \in DOMAIN vs}

\* MultiViewInput(views).validate() and
\* MultiViewProcessor.validate_views(views) on one view mapping
ValidateCall ==
    /\ pc = "idle"
    /\ \E vs \in RequestViews :
         /\ args' = [self |-> {}, mesh |-> {}, kw |-> [views |-> vs]]
         /\ last' = [op |-> "validate", arg |-> None, err |-> None,
                     ret |-> [validate |-> validate(vs),
                              validate_views |-> validate_views(vs)]]
    /\ log' = <<>>
    /\ pc' = "done"
    /\ UNCHANGED <<mgrVars, pre, image, cfg, cfg0, threads, instance, services, views, viewCount,
                   pipeline, mesh, faults, optVars>>

(* ------------- preprocessing of a view set, called directly ----------- *)

\* LightingNormalizer._process_multi_view lines 83-85: the reference view,
\* or the first view when the mapping has no such view
reference_view(vs, ref) ==
    IF \E i \in DOMAIN vs : vs[i] = ref THEN ref ELSE vs[1]

RECURSIVE lighting_loop(_, _, _, _)
\* lines 90-104: the loop over views.items() from the i-th view on
lighting_loop(vs, i, ref, acc) ==
    IF i > Len(vs) THEN acc
    ELSE IF vs[i] = ref
    THEN lighting_loop(vs, i + 1, ref,
                       [acc EXCEPT !.views = Append(@, vs[i])])
    ELSE lighting_loop(vs, i + 1, ref,
                       [acc EXCEPT !.views = Append(@, vs[i]),
                                   !.log = Append(@, Call("_histogram_matching"))])

lighting_process_others(vs, ref) ==
    lighting_loop(vs, 2, reference_view(vs, ref),
                  [views |-> <<>>, err |-> None, log |-> <<>>])

\* LightingNormalizer.process(views) on a view mapping
lighting_process(vs, ref) ==
    IF vs = <<>>
    THEN \* list(views.keys())[0]
         [views |-> <<>>, err |-> "IndexError", log |-> <<>>]
    ELSE lighting_loop(vs, 1, reference_view(vs, ref),
                       [views |-> <<>>, err |-> None, log |-> <<>>])

\* MultiViewProcessor.process(images, remove_background) followed, when
\* `light`, by LightingNormalizer.process on its views
PreprocessViewsCall ==
    /\ pc = "idle"
    /\ \E vs \in RequestViews, rb \in BOOLEAN, segFailAt \in 0..MaxViews,
          light \in BOOLEAN :
         \E r \in {mv_process(vs, rb, segFailAt)} :
         \E l \in {IF r.err = None /\ light
                  THEN lighting_process(r.views, "front")
                  ELSE [views |-> r.views, err |-> r.err, log |-> <<>>]} :
           /\ segFailAt <= Len(vs)
           /\ args' = [self |-> {}, mesh |-> {},
                       kw |-> [views |-> vs, remove_background |-> rb,
                               normalize_lighting |-> light]]
           /\ log' = r.log \o l.log
           /\ last' = [op |-> "preprocess_views", arg |-> None, err |-> l.err,
                       ret |-> [processed |-> r.views,
                                view_count |-> Len(r.views),
                                available_views |-> r.views,
                                views |-> l.views]]
    /\ pc' = "done"
    /\ UNCHANGED <<mgrVars, pre, image, cfg, cfg0, threads, instance, services, views, viewCount,
                   pipeline, mesh, faults, optVars>>

(* ------------- both optimizers on one mesh, called directly ----------- *)

\* the toggles of MeshOptimizer and of AdvancedMeshOptimizer
BasicFlags == {"remove_floaters", "reduce_faces", "remove_degenerate"}
AdvancedFlags ==
    {"make_watertight", "fill_holes", "smooth_surface", "recalculate_normals"}

\* MeshOptimizer(...).process(mesh) and, when it returns,
\* AdvancedMeshOptimizer(...).process on its result, as generate chains
\* them; `on`: the stages switched on at construction; F: the calls that
\* raise
RepairCall ==
    /\ pc = "idle"
    /\ \E on \in SUBSET (BasicFlags \cup AdvancedFlags),
          F \in {{}} \cup {{f} : f \in (BasicSteps \cup AdvFilters)
                                        \ AdvConversions} :
         \E m \in {[faces |-> MaxFaceCount, floaters |-> 1, applied |-> <<>>]} :
         \E b \in {basic_process(
                     [reduce_faces |-> "reduce_faces" \in on,
                      max_faces |-> 2,
                      remove_floaters |-> "remove_floaters" \in on,
                      remove_degenerate |-> "remove_degenerate" \in on],
                     m, F)} :
         \E a \in {IF b.err # None
                  THEN [mesh |-> b.mesh, log |-> <<>>, err |-> b.err]
                  ELSE adv_process(
                         [NewAdvancedMeshOptimizer EXCEPT
                            !.make_watertight = "make_watertight" \in on,
                            !.fill_holes = "fill_holes" \in on,
                            !.smooth_surface = "smooth_surface" \in on,
                            !.recalculate_normals =
                                "recalculate_normals" \in on],
                         b.mesh, NoKwargs, F)} :
           /\ args' = [self |-> {}, mesh |-> {m}, kw |-> [on |-> on]]
           /\ log' = b.log \o a.log
           /\ faults' = F \cap Calls(b.log \o a.log)
           /\ mesh' = IF a.err = None THEN {a.mesh} ELSE {}
           /\ last' = [op |-> "repair", arg |-> None, err |-> a.err,
                       ret |-> IF a.err = None THEN "Trimesh" ELSE None]
    /\ pc' = "done"
    /\ UNCHANGED <<mgrVars, pre, image, cfg, cfg0, threads, instance, services, views, viewCount,
                   pipeline, optVars>>

NextUnit ==
    \/ ReduceFacesCall
    \/ RepairCall
    \/ PreprocessViewsCall
    \/ ValidateCall
    \/ HistogramMatchingCall
    \/ ExportCall
    \/ ToBytesCall
    \/ Discard

SpecUnit == Init /\ [][NextUnit]_vars

(* ------------- concurrent load_model calls on one manager ------------- *)

Threads == 1..MaxThreads

\* load_model line 61: the residency check selects the next statement
race_check(m, k) == IF HasKey(m, k) THEN "set_current" ELSE "instantiate"

\* load_model line 85: self._models[model_type.value] = pipeline
race_store_keep(m, k, h) == IF HasKey(m, k) THEN m ELSE DictSet(m, k, h)

race_store(m, k, h) == DictSet(m, k, h)

\* the handles alive: resident ones and the ones threads hold in `pipeline`
LiveHandles ==
    models \cup {<<threads[t].kind, threads[t].pipeline>> : t \in DOMAIN threads}

\* each thread is about to execute load_model(kind); the manager is new
\* or has the single-image model resident
InitRace ==
    /\ models \in {{}, {<<HUNYUAN3D_2_1, "h1">>}}
    /\ current = IF models = {} THEN None ELSE HUNYUAN3D_2_1
    /\ pre = [models |-> models, current |-> current]
    /\ threads \in [Threads -> [pc : {"check"}, kind : ModelType,
                                pipeline : {None}]]
    /\ pc = "idle"
    /\ last = NoCall
    /\ log = <<>>
    /\ image = NoImage
    /\ cfg = DefaultConfig
    /\ cfg0 = DefaultConfig
    /\ views = <<>>
    /\ viewCount = 0
    /\ pipeline = None
    /\ mesh = {}
    /\ meshOpt = NewMeshOptimizer
    /\ advOpt = NewAdvancedMeshOptimizer
    /\ args = NoArgs
    /\ faults = {}
    /\ instance = {}
    /\ services = <<>>

raceFrame ==
    <<pc, last, pre, image, cfg, cfg0, views, viewCount, pipeline, mesh,
      meshOpt, advOpt, args, faults, instance, services>>

\* line 61: if model_type.value in self._models
RaceCheck ==
    /\ \E t \in Threads :
         /\ threads[t].pc = "check"
         /\ threads' = [threads EXCEPT
                          ![t].pc = race_check(models, threads[t].kind)]
    /\ UNCHANGED <<mgrVars, log, raceFrame>>

\* lines 76-83: pipeline = ...from_pretrained(...), which returns a new
\* object or raises
RaceInstantiate ==
    /\ \E t \in Threads, ok \in BOOLEAN :
         /\ threads[t].pc = "instantiate"
         /\ threads' = [threads EXCEPT
                          ![t].pc = IF ok THEN "store" ELSE "raised",
                          ![t].pipeline = IF ok THEN NewHandle(LiveHandles)
                                          ELSE None]
         /\ log' = Append(log, CallWith("from_pretrained", t))
    /\ UNCHANGED <<mgrVars, raceFrame>>

\* line 85: self._models[model_type.value] = pipeline
RaceStore ==
    /\ \E t \in Threads :
         /\ threads[t].pc = "store"
         /\ models' = race_store(models, threads[t].kind,
                                 threads[t].pipeline)
         /\ threads' = [threads EXCEPT ![t].pc = "set_current"]
         /\ log' = Append(log, CallWith("store", t))
    /\ UNCHANGED <<current, raceFrame>>

\* lines 62 and 86: self._current_model = model_type.value
RaceSetCurrent ==
    /\ \E t \in Threads :
         /\ threads[t].pc = "set_current"
         /\ current' = threads[t].kind
         /\ threads' = [threads EXCEPT ![t].pc = "returned"]
    /\ UNCHANGED <<models, log, raceFrame>>

NextRace ==
    \/ RaceCheck
    \/ RaceInstantiate
    \/ RaceStore
    \/ RaceSetCurrent

SpecRace == InitRace /\ [][NextRace]_vars

(* ------------- the service singleton (service/shape_service.py) ------ *)

\* ShapeGenerationService(default_model=..., auto_load=...): the new
\* service's manager, loaded with the default model when auto_load
NewService(default_model, auto_load, ok) ==
    LET r == IF auto_load THEN load_model({}, None, default_model, ok)
             ELSE [models |-> {}, current |-> None, err |-> None,
                   log |-> <<>>]
    IN  [svc |-> [models |-> r.models, current |-> r.current,
                  default_model |-> default_model, auto_load |-> auto_load],
         err |-> r.err]

\* ShapeGenerationService.get_instance(default_model=..., auto_load=...)
get_instance_fresh(inst, svcs, default_model, auto_load, ok) ==
    LET n == NewService(default_model, auto_load, ok) IN
    IF n.err # None
    THEN [instance |-> inst, services |-> svcs, ret |-> 0, err |-> n.err]
    ELSE [instance |-> {Len(svcs) + 1}, services |-> Append(svcs, n.svc),
          ret |-> Len(svcs) + 1, err |-> None]

get_instance(inst, svcs, default_model, auto_load, ok) ==
    IF inst = {}
    THEN LET n == NewService(default_model, auto_load, ok) IN
         IF n.err # None
         THEN \* the constructor raised: cls._instance is not assigned
              [instance |-> inst, services |-> svcs, ret |-> 0,
               err |-> n.err]
         ELSE [instance |-> {Len(svcs) + 1},
               services |-> Append(svcs, n.svc),
               ret |-> Len(svcs) + 1, err |-> None]
    ELSE [instance |-> inst, services |-> svcs, ret |-> TheOne(inst),
          err |-> None]

\* the frame of the calls on the service class and on service objects
serviceFrame ==
    <<mgrVars, pc, pre, image, cfg, cfg0, views, viewCount, pipeline, mesh,
      optVars, faults, threads>>

GetInstanceCall ==
    /\ pc = "idle"
    /\ Len(log) < MaxCalls
    /\ \E dm \in ModelType, al \in BOOLEAN, ok \in BOOLEAN :
         \E r \in {get_instance(instance, services, dm, al, ok)} :
           /\ instance' = r.instance
           /\ services' = r.services
           /\ args' = [self |-> {}, mesh |-> {},
                       kw |-> [default_model |-> dm, auto_load |-> al]]
           /\ log' = Append(log, IF r.err = None
                                 THEN CallWith("get_instance", r.ret)
                                 ELSE CallWith("get_instance raised", 0))
           /\ last' = [op |-> "get_instance", arg |-> None, err |-> r.err,
                       ret |-> r.ret]
    /\ UNCHANGED serviceFrame

\* ShapeGenerationService.reset_instance()
ResetInstanceCall ==
    /\ pc = "idle"
    /\ Len(log) < MaxCalls
    /\ instance' = {}
    /\ log' = Append(log, Call("reset_instance"))
    /\ last' = [op |-> "reset_instance", arg |-> None, err |-> None,
                ret |-> 0]
    /\ UNCHANGED <<serviceFrame, services, args>>

\* service.load_model(k) on a service object a caller holds
ServiceLoadModelCall ==
    /\ pc = "idle"
    /\ Len(log) < MaxCalls
    /\ \E s \in DOMAIN services, k \in ModelType, ok \in BOOLEAN :
         \E r \in {load_model(services[s].models, services[s].current, k, ok)} :
           /\ services' = [services EXCEPT ![s].models = r.models,
                                           ![s].current = r.current]
           /\ log' = Append(log, CallWith("load_model", s))
           /\ last' = [op |-> "service.load_model", arg |-> k, err |-> r.err,
                       ret |-> s]
    /\ UNCHANGED <<serviceFrame, instance, args>>

\* service.unload_model(k) on a service object a caller holds
ServiceUnloadModelCall ==
    /\ pc = "idle"
    /\ Len(log) < MaxCalls
    /\ \E s \in DOMAIN services, k \in ModelType :
         \E r \in {unload_model(services[s].models, services[s].current, k)} :
           /\ services' = [services EXCEPT ![s].models = r.models,
                                           ![s].current = r.current]
           /\ log' = Append(log, CallWith("unload_model", s))
           /\ last' = [op |-> "service.unload_model", arg |-> k, err |-> None,
                       ret |-> s]
    /\ UNCHANGED <<serviceFrame, instance, args>>

NextService ==
    \/ GetInstanceCall
    \/ ResetInstanceCall
    \/ ServiceLoadModelCall
    \/ ServiceUnloadModelCall

SpecService == Init /\ [][NextService]_vars

(* ================================ claims ============================== *)

(* ------------------------------- C1 ----------------------------------- *)

\* C1: load_model(K) called while K is resident instantiates nothing,
\* leaves the resident mapping as it was (one handle for K, the same one)
\* and makes K the current kind.
C1_LoadResidentIsNoOp ==
    (pc = "done" /\ last.op = "load_model" /\ HasKey(pre.models, last.arg))
    => /\ log = <<>>
       /\ last.err = None
       /\ models = pre.models
       /\ Cardinality({p \in models : p[1] = last.arg}) = 1
       /\ current = last.arg

\* a resident kind that was not current has been loaded again
C1_Witness ==
    /\ pc = "done"
    /\ last.op = "load_model"
    /\ HasKey(pre.models, last.arg)
    /\ pre.current # last.arg
    /\ current = last.arg

(* ------------------------------- C2 ----------------------------------- *)

\* C2: in every reachable state the resident mapping holds at most one
\* handle per model kind.
C2_OneHandlePerKind ==
    \A k \in ModelType : Cardinality({p \in models : p[1] = k}) <= 1

\* both kinds resident, the second one loaded by a generate call
C2_Witness ==
    /\ pc = "done"
    /\ last.op = "generate"
    /\ Keys(pre.models) = {HUNYUAN3D_2_1}
    /\ Keys(models) = ModelType
    /\ Cardinality(models) = 2

(* ------------------------------- C3 ----------------------------------- *)

\* C3: unload_model(K) raises nothing; with K resident it removes K (and
\* only K) from the resident set; with K absent it leaves the resident
\* set and the current pointer as they were.
C3_UnloadRemovesOrNoOp ==
    (pc = "done" /\ last.op = "unload_model")
    => /\ last.err = None
       /\ HasKey(pre.models, last.arg)
            => /\ ~HasKey(models, last.arg)
               /\ models = {p \in pre.models : p[1] # last.arg}
       /\ ~HasKey(pre.models, last.arg)
            => /\ models = pre.models
               /\ current = pre.current
               /\ log = <<>>

\* the current kind has been unloaded while the other kind stays resident
C3_Witness ==
    /\ pc = "done"
    /\ last.op = "unload_model"
    /\ Keys(pre.models) = ModelType
    /\ pre.current = last.arg
    /\ Keys(models) = ModelType \ {last.arg}

(* ------------------------------- C4 ----------------------------------- *)

\* the kind a get_model call selects: its argument, or the current kind
C4_Selected == IF last.arg # None THEN last.arg ELSE pre.current

\* C4: get_model returns the resident handle of the selected kind (the
\* argument, or the current kind when omitted), raises RuntimeError when
\* no kind is selected or the selected kind is not resident, and changes
\* neither the resident set nor the current pointer.
C4_GetModelContract ==
    (pc = "done" /\ last.op = "get_model")
    => /\ models = pre.models
       /\ current = pre.current
       /\ IF C4_Selected # None /\ HasKey(pre.models, C4_Selected)
          THEN /\ last.err = None
               /\ <<C4_Selected, last.ret>> \in pre.models
          ELSE /\ last.err = "RuntimeError"
               /\ last.ret = None

\* get_model() without a kind has returned the handle of the current
\* kind while another kind is resident too
C4_Witness ==
    /\ pc = "done"
    /\ last.op = "get_model"
    /\ last.arg = None
    /\ last.err = None
    /\ Cardinality(models) = 2
    /\ <<current, last.ret>> \in models

(* ------------------------------- C5 ----------------------------------- *)

InferenceCalled == "infer" \in Calls(log)

\* single-image path: no model is ever loaded, and inference runs only
\* with the resident single-image model
C5_SingleNeverLoads ==
    (last.op = "generate" /\ cfg.input_mode = SINGLE_IMAGE)
    => /\ "from_pretrained" \notin Calls(log)
       /\ models = pre.models
       /\ current = pre.current
       /\ (pc = "infer" \/ InferenceCalled) => HasKey(models, HUNYUAN3D_2_1)
       /\ pc = "infer" => pipeline = DictGet(models, HUNYUAN3D_2_1)

\* multi-view path: inference runs with the multi-view model, loaded by
\* the request when it was not resident
C5_MultiInfersWithLoaded ==
    (last.op = "generate" /\ cfg.input_mode = MULTI_VIEW
        /\ (pc = "infer" \/ InferenceCalled))
    => /\ HasKey(models, HUNYUAN3D_2MV)
       /\ pc = "infer" => pipeline = DictGet(models, HUNYUAN3D_2MV)
       /\ ~HasKey(pre.models, HUNYUAN3D_2MV)
            => "from_pretrained" \in Calls(log)

\* the model-selection step of either path when its model is not resident
C5_SelectStep ==
    /\ (pc = "single_model" /\ ~HasKey(models, HUNYUAN3D_2_1))
         => /\ pc' = "done"
            /\ last'.err = "RuntimeError"
            /\ log' = log
            /\ UNCHANGED mgrVars
    /\ (pc = "mv_model" /\ ~HasKey(models, HUNYUAN3D_2MV))
         => /\ log' = Append(log, Call("from_pretrained"))
            /\ \/ /\ pc' = "infer"
                  /\ HasKey(models', HUNYUAN3D_2MV)
                  /\ pipeline' = DictGet(models', HUNYUAN3D_2MV)
               \/ /\ pc' = "done"
                  /\ last'.err = "Exception"
                  /\ UNCHANGED mgrVars

\* C5: model selection is asymmetric: the multi-view path loads the
\* multi-view model when it is not resident and goes on to inference with
\* it; the single-image path never loads a model and, when the
\* single-image model is not resident, fails with RuntimeError without
\* calling inference.
C5_AsymmetricModelSelection ==
    /\ [](C5_SingleNeverLoads /\ C5_MultiInfersWithLoaded)
    /\ [][C5_SelectStep]_vars

\* a multi-view request found its model absent, loaded it and called
\* inference
C5_Witness ==
    /\ last.op = "generate"
    /\ cfg.input_mode = MULTI_VIEW
    /\ ~HasKey(pre.models, HUNYUAN3D_2MV)
    /\ HasKey(models, HUNYUAN3D_2MV)
    /\ log = <<Call("from_pretrained"), Call("infer")>>

(* ------------------------------- C6 ----------------------------------- *)

\* a multi-view request on a view mapping
MultiViewRequest ==
    /\ last.op = "generate"
    /\ cfg.input_mode = MULTI_VIEW
    /\ image.shape = "views"

\* C6: a multi-view request whose view set lacks front fails with
\* ValueError before any segmentation, model load or inference call, and
\* leaves the resident set unchanged.
C6_MissingFrontFailsFirst ==
    (MultiViewRequest /\ "front" \notin SeqRange(image.views))
    => /\ log = <<>>
       /\ models = pre.models
       /\ pc \in {"mv_validate", "done"}
       /\ pc = "done" => (last.err = "ValueError" /\ last.ret = None)

\* the request {left: img} has failed while a model is resident
C6_Witness ==
    /\ MultiViewRequest
    /\ image.views = <<"left">>
    /\ cfg.remove_background
    /\ pc = "done"
    /\ last.err = "ValueError"
    /\ models # {}

(* ------------------------------- C7 ----------------------------------- *)

\* C7 (as claimed): a multi-view request that holds front and a view name
\* outside VIEW_ORDER is rejected before the inference call, whatever the
\* configuration: inference is never called and the request ends in an
\* error.
C7_UnknownViewRejected ==
    (MultiViewRequest
        /\ "front" \in SeqRange(image.views)
        /\ \E i \in DOMAIN image.views : image.views[i] \notin ViewOrderNames)
    => /\ ~InferenceCalled
       /\ pc = "done" => last.err # None

(* ------------------------------- C8 ----------------------------------- *)

\* C8 (as claimed): when inference was called and left no mesh (it
\* returned None or a sequence whose first element is None), generate
\* ends with an error and returns no GenerationResult.  After the
\* inference call `mesh` is empty exactly when inference gave no mesh or
\* an exception has dropped the locals.
C8_NoMeshIsFatal ==
    (pc = "done" /\ last.op = "generate" /\ InferenceCalled /\ mesh = {})
    => /\ last.err # None
       /\ last.ret # "GenerationResult"

(* ------------------------------- C9 ----------------------------------- *)

\* the external calls of the basic stages: floater removal, decimation,
\* degenerate-face cleanup
BasicStageCalls == BasicSteps \ {"export_ply", "load_ply"}

\* C9 (as claimed): a generate call in which a basic-optimization stage
\* failed still returns a GenerationResult with a mesh.
C9_BasicStageFailureNonFatal ==
    (pc = "done" /\ last.op = "generate" /\ faults # {}
        /\ faults \subseteq BasicStageCalls)
    => /\ last.err = None
       /\ last.ret = "GenerationResult"
       /\ mesh # {}

(* ------------------------------- C10 ---------------------------------- *)

\* the flag a direct process call runs with: the keyword argument, or
\* the optimizer's field
C10_Flag(name) == KwGet(args.kw, name, TheOne(args.self)[name])

\* the filters process has to attempt, in order, given which ones failed
C10_Attempted ==
    (IF C10_Flag("make_watertight")
     THEN <<"meshing_repair_non_manifold_edges",
            "meshing_repair_non_manifold_vertices",
            "meshing_remove_duplicate_faces",
            "meshing_remove_duplicate_vertices",
            "meshing_remove_null_faces">>
     ELSE <<>>)
    \o (IF C10_Flag("fill_holes") THEN <<"meshing_close_holes">> ELSE <<>>)
    \o (IF C10_Flag("smooth_surface")
        THEN IF "apply_coord_taubin_smoothing" \in faults
             THEN <<"apply_coord_taubin_smoothing",
                    "apply_coord_laplacian_smoothing">>
             ELSE <<"apply_coord_taubin_smoothing">>
        ELSE <<>>)
    \o (IF C10_Flag("recalculate_normals")
        THEN <<"compute_normal_per_face", "compute_normal_per_vertex",
               "meshing_re_orient_faces_coherentely">>
        ELSE <<>>)

C10_Succeeded(name) == name \notin faults

\* C10: whatever filters fail inside AdvancedMeshOptimizer.process (the
\* two mesh conversions aside), the call raises nothing and returns a
\* mesh; every enabled filter is attempted, in order; and the mesh
\* returned carries exactly the filters that did not fail.
C10_AdvancedFailuresCaught ==
    (pc = "done" /\ last.op = "adv_process"
        /\ faults \cap AdvConversions = {})
    => /\ last.err = None
       /\ last.ret = "Trimesh"
       /\ mesh # {}
       /\ [i \in DOMAIN log |-> log[i][1]]
             = (<<"export_ply">> \o C10_Attempted) \o <<"load_ply">>
       /\ TheOne(mesh).applied = SelectSeq(C10_Attempted, C10_Succeeded)

\* a call in which watertight repair, hole filling, smoothing and normal
\* recomputation each had a failing filter, and which returned a mesh
C10_Witness ==
    /\ pc = "done"
    /\ last.op = "adv_process"
    /\ last.err = None
    /\ {"meshing_repair_non_manifold_edges", "meshing_close_holes",
        "apply_coord_taubin_smoothing", "compute_normal_per_face"}
          \subseteq faults
    /\ faults \cap AdvConversions = {}
    /\ mesh # {}
    /\ Len(TheOne(mesh).applied) > 0

(* ------------------------------- C11 ---------------------------------- *)

\* a direct decimation call has ended
C11_Reduced == pc = "done" /\ last.op = "reduce_faces"

C11_Target == args.kw.max_facenum

C11_FacesBefore == TheOne(args.mesh).faces

C12_StatusMatchesResidents ==
    (pc = "done" /\ last.op = "get_status")
    => /\ last.err = None
       /\ last.ret.is_ready = (\E k \in ModelType : HasKey(models, k))
       /\ last.ret.loaded_models = {k \in ModelType : HasKey(models, k)}
       /\ models = {} => (~last.ret.is_ready /\ last.ret.loaded_models = {})
       /\ models = pre.models
       /\ current = pre.current

\* the status of a service whose only resident kind is the multi-view one
C12_Witness ==
    /\ pc = "done"
    /\ last.op = "get_status"
    /\ last.ret.is_ready
    /\ last.ret.loaded_models = {HUNYUAN3D_2MV}

(* ------------------------------- C13 ---------------------------------- *)

\* the positions inside _generate_multi_view and inside _generate_single
C13_MultiPositions == {"mv_validate", "mv_preprocess", "mv_model"}
C13_SinglePositions == {"single_preprocess", "single_model"}

\* the mode C13 expects for the request in progress
C13_Expected ==
    IF cfg0.auto_detect_mode
    THEN IF image.shape = "views" THEN MULTI_VIEW ELSE SINGLE_IMAGE
    ELSE cfg0.input_mode

\* C13: with auto-detection on, generate resolves the mode to multi-view
\* exactly when the input is a view mapping and to single-image otherwise;
\* with auto-detection off, the config's input_mode decides whatever the
\* input's shape.  The resolved mode selects the path taken.
C13_ModeResolution ==
    last.op = "generate"
    => /\ cfg.input_mode = C13_Expected
       /\ pc \in C13_MultiPositions => C13_Expected = MULTI_VIEW
       /\ pc \in C13_SinglePositions => C13_Expected = SINGLE_IMAGE

\* a decoded image sent down the multi-view path by a forced mode
C13_Witness ==
    /\ last.op = "generate"
    /\ ~cfg0.auto_detect_mode
    /\ cfg0.input_mode = MULTI_VIEW
    /\ image.shape = "image"
    /\ pc = "mv_validate"

(* ------------------------------- C14 ---------------------------------- *)

\* generate has returned a result that holds a mesh
ReturnedMesh ==
    /\ pc = "done"
    /\ last.op = "generate"
    /\ last.ret = "GenerationResult"
    /\ mesh # {}

\* how many times the latest call made the external call `name`
CountCalls(name) == Cardinality({i \in DOMAIN log : log[i][1] = name})

Attempted(name) == name \in Calls(log)

\* C14: for a request that produced a mesh, basic optimization runs
\* exactly when optimize_mesh is set, advanced optimization runs exactly
\* when one of fill_holes, make_watertight, smooth_surface,
\* recalculate_normals is set, and inside the advanced stage exactly the
\* sub-stages whose flag is set run.  (Each optimizer run converts the
\* mesh once on entry, so the entry conversions count the runs; the
\* floater selection is the first filter of a basic run.)
C14_StagesFollowConfig ==
    ReturnedMesh
    => /\ Attempted("compute_selection_by_small_disconnected_components_per_face")
            <=> cfg.optimize_mesh
       /\ CountCalls("export_ply")
            = (IF cfg.optimize_mesh THEN 1 ELSE 0)
              + (IF cfg.fill_holes \/ cfg.make_watertight
                    \/ cfg.smooth_surface \/ cfg.recalculate_normals
                 THEN 1 ELSE 0)
       /\ \A f \in SeqRange(WatertightFilters) :
            Attempted(f) <=> cfg.make_watertight
       /\ Attempted("meshing_close_holes") <=> cfg.fill_holes
       /\ Attempted("apply_coord_taubin_smoothing") <=> cfg.smooth_surface
       /\ Attempted("apply_coord_laplacian_smoothing") => cfg.smooth_surface
       /\ \A f \in SeqRange(NormalFilters) :
            Attempted(f) <=> cfg.recalculate_normals

\* a request with only fill_holes set went through basic optimization
\* and, of the advanced sub-stages, through hole filling alone
C14_Witness ==
    /\ ReturnedMesh
    /\ cfg.optimize_mesh
    /\ cfg.fill_holes
    /\ ~cfg.make_watertight
    /\ CountCalls("export_ply") = 2
    /\ Attempted("meshing_close_holes")
    /\ ~Attempted("meshing_repair_non_manifold_edges")

(* ------------------------------- C15 ---------------------------------- *)

\* C15 (as claimed): in every generate call, hole filling is applied with
\* the config's max_hole_size and smoothing with the config's
\* smooth_iterations.
C15_SubParametersUsed ==
    last.op = "generate"
    => \A i \in DOMAIN log :
         /\ log[i][1] = "meshing_close_holes"
              => log[i][2] = cfg.max_hole_size
         /\ log[i][1] \in {"apply_coord_taubin_smoothing",
                           "apply_coord_laplacian_smoothing"}
              => log[i][2] = cfg.smooth_iterations

(* ------------------------------- C16 ---------------------------------- *)

\* the positions in the log of the stores of a handle for kind k
C16_Stores(k) ==
    {i \in DOMAIN log : log[i][1] = "store" /\ threads[log[i][2]].kind = k}

\* the thread whose store of kind k came last
C16_LastStorer(k) ==
    log[CHOOSE i \in C16_Stores(k) : \A j \in C16_Stores(k) : j <= i][2]

\* the threads that have instantiated kind k
C16_Instantiators(k) ==
    {t \in Threads : threads[t].kind = k /\ threads[t].pipeline # None}

\* C16: nothing serialises concurrent load_model calls.  A thread that
\* found K absent instantiates and stores whatever the other threads have
\* done meanwhile: every instantiation yields a handle of its own, and the
\* resident handle of K is the one stored last, any handle stored earlier
\* being overwritten.  (That two threads do both instantiate K is the
\* witness.)
C16_LastStoreWins ==
    /\ \A k \in ModelType : Cardinality({p \in models : p[1] = k}) <= 1
    /\ \A t1, t2 \in Threads :
         (t1 # t2 /\ threads[t1].pipeline # None)
         => threads[t1].pipeline # threads[t2].pipeline
    /\ \A k \in ModelType :
         C16_Stores(k) # {}
         => <<k, threads[C16_LastStorer(k)].pipeline>> \in models

\* two threads have called load_model(K) with K absent, both have
\* instantiated K and returned, and the handle one of them stored is gone
C16_Witness ==
    /\ \A t \in Threads : threads[t].pc = "returned"
    /\ \E t1, t2 \in Threads :
         /\ t1 # t2
         /\ threads[t1].kind = threads[t2].kind
         /\ ~HasKey(pre.models, threads[t1].kind)
         /\ {t1, t2} \subseteq C16_Instantiators(threads[t1].kind)
         /\ <<threads[t1].kind, threads[t2].pipeline>> \in models
         /\ \A p \in models : p[2] # threads[t1].pipeline

(* ------------------------------- C17 ---------------------------------- *)

\* C17 (as claimed): once generate has returned or raised, the config
\* object the caller passed has in every field the value it was passed
\* with.
C17_ConfigIsNotMutated ==
    (pc = "done" /\ last.op = "generate") => cfg = cfg0

(* ------------------------------- C18 ---------------------------------- *)

C18_Upper(c) ==
    CASE c = "g" -> "G" [] c = "l" -> "L" [] c = "b" -> "B" [] c = "t" -> "T"
      [] c = "f" -> "F" [] c = "o" -> "O" [] c = "j" -> "J" [] c = "p" -> "P"
      [] c = "y" -> "Y" [] c = "s" -> "S" [] OTHER -> c

\* a and b are the same string up to the case of their letters
C18_SameIgnoringCase(a, b) ==
    /\ Len(a) = Len(b)
    /\ \A i \in DOMAIN a : C18_Upper(a[i]) = C18_Upper(b[i])

C18_Names ==
    { <<"g", "l", "b">>, <<"g", "l", "t", "f">>, <<"o", "b", "j">>,
      <<"p", "l", "y">>, <<"s", "t", "l">>, <<"o", "f", "f">> }

\* the format string the call is about: the one passed, or the suffix of
\* the path without its dot when export is given none
C18_Format ==
    IF args.kw.format # {} THEN TheOne(args.kw.format)
    ELSE IF args.kw.suffix = <<>> THEN <<>> ELSE Tail(args.kw.suffix)

C18_Supported == \E n \in C18_Names : C18_SameIgnoringCase(C18_Format, n)

C18_ExportCall ==
    /\ pc = "done"
    /\ last.op \in {"export", "to_bytes"}
    /\ ~(last.op = "to_bytes" /\ args.kw.format = {})

\* C18: export and to_bytes raise ValueError exactly for the formats
\* outside {glb, gltf, obj, ply, stl, off} compared without regard to
\* case, and when they do, no directory has been created and the mesh's
\* export has not been called.
C18_UnsupportedFormatIsValueError ==
    C18_ExportCall
    => /\ (last.err = "ValueError") <=> ~C18_Supported
       /\ last.err = "ValueError" => log = <<>>

C18_Witness ==
    /\ C18_ExportCall
    /\ last.op = "export"
    /\ args.kw.format = {}
    /\ ~C18_Supported
    /\ last.err = "ValueError"

(* ------------------------------- C19 ---------------------------------- *)

C19_SelfMatch ==
    /\ pc = "done"
    /\ last.op = "_histogram_matching"
    /\ args.kw.source = args.kw.reference

\* C19 (as claimed): when an image is matched against itself, the lookup
\* table maps every intensity that occurs in the image to itself.
C19_SelfMatchIsIdentity ==
    C19_SelfMatch
    => \A v \in Intensities : args.kw.source[v] > 0 => last.ret[v] = v

(* ------------------------------- C20 ---------------------------------- *)

C20_Names == {args.kw.views[i] : i \in DOMAIN args.kw.views}

\* C20: on every view set, MultiViewInput.validate and
\* MultiViewProcessor.validate_views both return true exactly when the
\* set contains front; the empty set and a set without front give false.
C20_ValidateIffFront ==
    (pc = "done" /\ last.op = "validate")
    => /\ last.ret.validate = ("front" \in C20_Names)
       /\ last.ret.validate_views = ("front" \in C20_Names)
       /\ last.ret.validate = last.ret.validate_views

\* both have been called on a non-empty view set without front
C20_Witness ==
    /\ pc = "done"
    /\ last.op = "validate"
    /\ C20_Names # {}
    /\ "front" \notin C20_Names
    /\ ~last.ret.validate
    /\ ~last.ret.validate_views

(* ------------------------------- C21 ---------------------------------- *)

C21_Names(vs) == {vs[i] : i \in DOMAIN vs}

C21_OnePerName(vs) == \A i, j \in DOMAIN vs : vs[i] = vs[j] => i = j

C21_Returned ==
    /\ pc = "done"
    /\ last.op = "preprocess_views"
    /\ last.err = None

\* C21: when the preprocessing of a view set returns, the processed views
\* and, when the lighting normalizer ran, the views it returns have
\* exactly the names of the input, one image per name, and the reported
\* view count is the number of input views.
C21_ViewSetPreserved ==
    C21_Returned
    => /\ C21_Names(last.ret.processed) = C21_Names(args.kw.views)
       /\ C21_OnePerName(last.ret.processed)
       /\ C21_Names(last.ret.available_views) = C21_Names(args.kw.views)
       /\ last.ret.view_count = Len(args.kw.views)
       /\ C21_Names(last.ret.views) = C21_Names(args.kw.views)
       /\ C21_OnePerName(last.ret.views)

\* {front, left} has been preprocessed with background removal and the
\* lighting normalizer has corrected the view that is not the reference
C21_Witness ==
    /\ C21_Returned
    /\ C21_Names(args.kw.views) = {"front", "left"}
    /\ args.kw.remove_background
    /\ args.kw.normalize_lighting
    /\ "_histogram_matching" \in Calls(log)
    /\ last.ret.view_count = 2

(* ------------------------------- C22 ---------------------------------- *)

\* the position of a stage in Start -> ModeDetect -> Preprocess ->
\* ModelSelect -> Infer -> BasicOptimize -> AdvancedOptimize -> Done
C22_Rank(p) ==
    CASE p = "idle" -> 0
      [] p \in {"single_preprocess", "mv_validate"} -> 1
      [] p = "mv_preprocess" -> 2
      [] p \in {"single_model", "mv_model"} -> 3
      [] p = "infer" -> 4
      [] p = "basic" -> 5
      [] p = "advanced" -> 6
      [] OTHER -> 7

\* the stage an external call belongs to (0: the PLY conversions, which
\* both optimizers make)
C22_CallStage(n) ==
    CASE n \in {"Image.open", "segment", "normalize_lighting"} -> 2
      [] n = "from_pretrained" -> 3
      [] n = "infer" -> 4
      [] n \in BasicStageCalls -> 5
      [] n \in AdvFilters -> 6
      [] OTHER -> 0

C22_CallsInOrder ==
    last.op = "generate"
    => /\ \A i, j \in DOMAIN log :
            (i < j /\ C22_CallStage(log[i][1]) # 0
                   /\ C22_CallStage(log[j][1]) # 0)
            => C22_CallStage(log[i][1]) <= C22_CallStage(log[j][1])
       /\ Cardinality({i \in DOMAIN log : log[i][1] = "infer"}) <= 1
       /\ Cardinality({i \in DOMAIN log : log[i][1] = "from_pretrained"}) <= 1

C22_StageStep ==
    /\ (pc = "idle" /\ last'.op = "generate") => C22_Rank(pc') = 1
    /\ (pc \notin {"idle", "done"}) => C22_Rank(pc') > C22_Rank(pc)
    /\ (last'.op = "generate" /\ last'.err # None) => pc' = "done"
    /\ pc = "done" => (pc' = "idle" /\ log' = <<>>)

\* C22: a generate request moves through mode detection, preprocessing,
\* model selection, inference, basic optimization and advanced
\* optimization in this order and never back, the calls it makes are in
\* the order of their stages with inference called at most once, and a
\* stage that raises ends the request: no later stage is entered.
C22_StagesInOrder ==
    /\ []C22_CallsInOrder
    /\ [][C22_StageStep]_vars

\* a multi-view request has returned after a call in each of its stages
C22_Witness ==
    /\ pc = "done"
    /\ last.op = "generate"
    /\ last.err = None
    /\ {2, 3, 4, 5, 6} \subseteq {C22_CallStage(log[i][1]) : i \in DOMAIN log}

(* ------------------------------- C23 ---------------------------------- *)

\* the canonical order of the stages
C23_Order ==
    <<"remove_floaters", "reduce_faces", "remove_degenerate",
      "make_watertight", "fill_holes", "smooth_surface",
      "recalculate_normals">>

\* the stage an external call belongs to ("": a conversion)
C23_StageOf(n) ==
    CASE n \in {"compute_selection_by_small_disconnected_components_per_face",
                "compute_selection_transfer_face_to_vertex",
                "meshing_remove_selected_vertices_and_faces"} ->
            "remove_floaters"
      [] n = "meshing_decimation_quadric_edge_collapse" -> "reduce_faces"
      [] n = "ply_round_trip" -> "remove_degenerate"
      [] n \in SeqRange(WatertightFilters) -> "make_watertight"
      [] n = "meshing_close_holes" -> "fill_holes"
      [] n \in {"apply_coord_taubin_smoothing",
                "apply_coord_laplacian_smoothing"} -> "smooth_surface"
      [] n \in SeqRange(NormalFilters) -> "recalculate_normals"
      [] OTHER -> ""

C23_Position(stage) == CHOOSE i \in DOMAIN C23_Order : C23_Order[i] = stage

\* the positions in the log of the calls of the stages
C23_StageCalls == {i \in DOMAIN log : C23_StageOf(log[i][1]) # ""}

C23_Executed == {C23_StageOf(log[i][1]) : i \in C23_StageCalls}

\* C23: whatever stages are switched on, the calls of the two optimizers
\* belong to stages that are on, come in the canonical order of their
\* stages, and no call is made twice; when nothing raised out of the
\* optimizers, every stage that is on has executed.
C23_CanonicalStageOrder ==
    (pc = "done" /\ last.op = "repair")
    => /\ C23_Executed \subseteq args.kw.on
       /\ \A i, j \in C23_StageCalls :
            i < j => /\ C23_Position(C23_StageOf(log[i][1]))
                          <= C23_Position(C23_StageOf(log[j][1]))
                     /\ log[i][1] # log[j][1]
       /\ last.err = None => C23_Executed = args.kw.on

\* every stage is on and has executed, none of them failing
C23_Witness ==
    /\ pc = "done"
    /\ last.op = "repair"
    /\ last.err = None
    /\ faults = {}
    /\ args.kw.on = SeqRange(C23_Order)
    /\ C23_Executed = SeqRange(C23_Order)

(* ------------------------------- C24 ---------------------------------- *)

C24_Taubin == {i \in DOMAIN log : log[i][1] = "apply_coord_taubin_smoothing"}

C24_Laplacian ==
    {i \in DOMAIN log : log[i][1] = "apply_coord_laplacian_smoothing"}

\* the iteration count the call runs with
C24_Iterations ==
    KwGet(args.kw, "smooth_iterations", TheOne(args.self).smooth_iterations)

\* C24: in a process call with smoothing on, Taubin smoothing is attempted
\* once with the iteration count of the call; Laplacian smoothing is
\* attempted exactly when the Taubin filter raised, once, after it and
\* with the same iteration count; and when both raise, process raises
\* nothing for it and returns the mesh without a smoothing applied.
C24_LaplacianFallback ==
    (pc = "done" /\ last.op = "adv_process"
        /\ "export_ply" \notin faults)
    => /\ (C24_Taubin # {}) <=> C10_Flag("smooth_surface")
       /\ Cardinality(C24_Taubin) <= 1
       /\ Cardinality(C24_Laplacian) <= 1
       /\ \A i \in C24_Taubin : log[i][2] = C24_Iterations
       /\ (C24_Laplacian # {}) <=> "apply_coord_taubin_smoothing" \in faults
       /\ \A i \in C24_Laplacian :
            \E j \in C24_Taubin : j + 1 = i /\ log[j][2] = log[i][2]
       /\ ({"apply_coord_taubin_smoothing",
            "apply_coord_laplacian_smoothing"} \subseteq faults
           /\ "load_ply" \notin faults)
          => /\ last.err = None
             /\ mesh # {}
             /\ \A k \in DOMAIN TheOne(mesh).applied :
                  TheOne(mesh).applied[k]
                     \notin {"apply_coord_taubin_smoothing",
                             "apply_coord_laplacian_smoothing"}

\* a call with smooth_iterations = 5 in which both smoothing filters
\* raised and a mesh was returned
C24_Witness ==
    /\ pc = "done"
    /\ last.op = "adv_process"
    /\ last.err = None
    /\ {"apply_coord_taubin_smoothing",
        "apply_coord_laplacian_smoothing"} \subseteq faults
    /\ C24_Iterations = 5
    /\ \E i \in C24_Laplacian : log[i][2] = 5

(* ------------------------------- C25 ---------------------------------- *)

C25_Unloaded == pc = "done" /\ last.op = "unload_model"

\* C25: after unload_model(K) the current pointer is unset when it pointed
\* at K, whatever else is resident, and is what it was otherwise; every
\* other kind keeps its handle.
C25_UnloadClearsOnlyItsOwnCurrent ==
    C25_Unloaded
    => /\ current = IF pre.current = last.arg THEN None ELSE pre.current
       /\ \A p \in pre.models : p[1] # last.arg => p \in models
       /\ \A p \in models : p \in pre.models

\* both kinds were resident, the current one has been unloaded, and the
\* pointer is unset although the other kind is still resident
C25_Witness ==
    /\ C25_Unloaded
    /\ Keys(pre.models) = ModelType
    /\ pre.current = last.arg
    /\ current = None
    /\ models # {}

(* ------------------------------- C26 ---------------------------------- *)

C26_Resets == {i \in DOMAIN log : log[i][1] = "reset_instance"}

C26_Returns == {i \in DOMAIN log : log[i][1] = "get_instance"}

\* get_instance calls that returned with no reset_instance call between
\* them returned the same service, and a service is constructed only for
\* the first of them
C26_SameInstance ==
    /\ \A i, j \in C26_Returns :
         (i < j /\ \A k \in C26_Resets : ~(i < k /\ k < j))
         => log[i][2] = log[j][2]
    /\ Len(services) <= Cardinality(C26_Resets) + 1

\* a get_instance call that finds an instance returns it and leaves every
\* service as it is, whatever the arguments; reset_instance drops the
\* reference and leaves every service, its resident models included, as
\* it is
C26_Step ==
    /\ (log' # log /\ last'.op = "get_instance" /\ instance # {})
       => /\ services' = services
          /\ instance' = instance
          /\ last'.err = None
          /\ last'.ret = TheOne(instance)
    /\ (log' # log /\ last'.op = "reset_instance")
       => /\ services' = services
          /\ instance' = {}

\* C26: between two consecutive reset_instance calls every get_instance
\* call returns the same service object, constructed by the first of them
\* only, later arguments being ignored; reset_instance only drops the
\* reference, and the models resident in the old service stay resident.
C26_SingletonLifecycle ==
    /\ []C26_SameInstance
    /\ [][C26_Step]_vars

\* a service was constructed with a resident model and dropped by
\* reset_instance; a second one was constructed and has just been returned
\* again to a call with other arguments; the first still has its model
C26_Witness ==
    /\ last.op = "get_instance"
    /\ last.err = None
    /\ Len(services) = 2
    /\ last.ret = 2
    /\ Cardinality({i \in C26_Returns : log[i][2] = 2}) = 2
    /\ args.kw.default_model # services[2].default_model
    /\ services[1].models # {}

(* ------------------------------- C27 ---------------------------------- *)

\* C27 (as claimed): a process call leaves the optimizer's configured
\* values as they were, and a call that passes no smooth_iterations
\* smooths with the iteration count the optimizer was constructed with.
C27_OptimizerKeepsItsConfiguration ==
    (pc = "done" /\ last.op = "adv_process")
    => /\ advOpt = TheOne(args.self)
       /\ "smooth_iterations" \notin DOMAIN args.kw
          => \A i \in DOMAIN log :
               log[i][1] = "apply_coord_taubin_smoothing"
               => log[i][2] = NewAdvancedMeshOptimizer.smooth_iterations

(* ------------------------------- C28 ---------------------------------- *)

\* C28: at every point of a run of load_model and unload_model calls (and
\* of the generate calls that load), the current pointer is unset or names
\* a resident kind.
C28_CurrentIsResident == current # None => HasKey(models, current)

\* a load_model call has just failed to instantiate its kind while another
\* kind is resident and current
C28_Witness ==
    /\ pc = "done"
    /\ last.op = "load_model"
    /\ last.err # None
    /\ current # None
    /\ current # last.arg
    /\ HasKey(models, current)

(* ------------------------------- C30 ---------------------------------- *)

\* load_model has called from_pretrained
C30_Instantiated ==
    /\ pc = "done"
    /\ last.op = "load_model"
    /\ "from_pretrained" \in Calls(log)

C30_LoadRaised == C30_Instantiated /\ last.err # None

\* C30: a load_model(K) call that instantiates K either returns with K
\* resident, or the exception of the instantiation reaches the caller and
\* the resident kinds with their handles and the current pointer are what
\* they were before the call, K not being resident; load_model raises in
\* no other case.
C30_FailedLoadLeavesManagerUnchanged ==
    /\ (pc = "done" /\ last.op = "load_model" /\ last.err # None)
       => C30_Instantiated /\ ~HasKey(pre.models, last.arg)
    /\ C30_Instantiated
       => \/ last.err = None /\ HasKey(models, last.arg)
          \/ /\ last.err # None
             /\ models = pre.models
             /\ current = pre.current
             /\ ~HasKey(models, last.arg)

\* the instantiation of a kind failed on a manager holding the other kind
C30_Witness ==
    /\ C30_LoadRaised
    /\ pre.models # {}
    /\ pre.current # None

(* ------------------------------- C29 ---------------------------------- *)

\* C29: at every point of a generate call no kind resident before the
\* call has been dropped or has another handle; a single-image call has
\* left the resident kinds and the current pointer as they were; a
\* multi-view call has either left them as they were, or, the multi-view
\* kind not having been resident, has added it and made it current.
C29_GenerateNeverUnloads ==
    last.op = "generate"
    => /\ pre.models \subseteq models
       /\ cfg.input_mode = SINGLE_IMAGE
          => models = pre.models /\ current = pre.current
       /\ cfg.input_mode = MULTI_VIEW
          => \/ models = pre.models /\ current = pre.current
             \/ /\ ~HasKey(pre.models, HUNYUAN3D_2MV)
                /\ HasKey(models, HUNYUAN3D_2MV)
                /\ DictDel(models, HUNYUAN3D_2MV) = pre.models
                /\ current = HUNYUAN3D_2MV

\* a multi-view call has returned on a manager where both kinds were
\* resident and the single-image kind was current, and it still is
C29_Witness ==
    /\ pc = "done"
    /\ last.op = "generate"
    /\ last.err = None
    /\ cfg.input_mode = MULTI_VIEW
    /\ InferenceCalled
    /\ Keys(pre.models) = ModelType
    /\ pre.current = HUNYUAN3D_2_1
    /\ current = HUNYUAN3D_2_1

====
